---------------------------- MODULE Spec2Model ----------------------------
(***************************************************************************)
(* Story/image acquisition control loops of the YouTube automation         *)
(* pipeline:                                                               *)
(*   - generate                (src/src/services/main_generator.py)        *)
(*   - retry_story_generation  (src/src/generators/story_generator.py)     *)
(*   - collect_complete_story  (src/src/generators/story_generator.py)     *)
(*                                                                         *)
(* Text is a sequence of symbols.  A symbol is one character of the        *)
(* markup (space, newline, star, colon, hash, ...) or one whole word       *)
(* (Scene, fox, 1); a word never contains a markup character, so the       *)
(* string operations of the source (split, strip, in, +=) are the same     *)
(* operations on symbol sequences.                                         *)
(***************************************************************************)
EXTENDS Integers, Sequences, FiniteSets, TLC

(***************************************************************************)
(* String operations of the source, on symbol sequences                    *)
(***************************************************************************)
NL == "\n"
\* the symbol of a code fence (three backquotes)
FENCE == "fence"
SP == " "
WS == {" ", "\n", "\t"}

\* the first position from i on at which p occurs in s; 0 when there is none
RECURSIVE FindFrom(_, _, _)
FindFrom(s, p, i) ==
    IF i + Len(p) - 1 > Len(s) THEN 0
    ELSE IF SubSeq(s, i, i + Len(p) - 1) = p THEN i
    ELSE FindFrom(s, p, i + 1)

\* str.find, 1-based; 0 when p does not occur
Find(s, p) == FindFrom(s, p, 1)

\* `p in s`
Contains(s, p) == \E i \in 1..(Len(s) - Len(p) + 1) : SubSeq(s, i, i + Len(p) - 1) = p

\* s.startswith(p)
StartsWith(s, p) == Len(s) >= Len(p) /\ SubSeq(s, 1, Len(p)) = p

\* s.endswith(p)
EndsWith(s, p) == Len(s) >= Len(p) /\ SubSeq(s, Len(s) - Len(p) + 1, Len(s)) = p

\* s.split(p)
RECURSIVE Split(_, _)
Split(s, p) ==
    LET i == Find(s, p) IN
    IF i = 0 THEN <<s>>
    ELSE <<SubSeq(s, 1, i - 1)>> \o Split(SubSeq(s, i + Len(p), Len(s)), p)

\* s.split(p, 1)
SplitOnce(s, p) ==
    LET i == Find(s, p) IN
    IF i = 0 THEN <<s>>
    ELSE <<SubSeq(s, 1, i - 1), SubSeq(s, i + Len(p), Len(s))>>

RECURSIVE LStrip(_, _)
LStrip(s, C) == IF s # <<>> /\ Head(s) \in C THEN LStrip(Tail(s), C) ELSE s

RECURSIVE RStrip(_, _)
RStrip(s, C) == IF s # <<>> /\ s[Len(s)] \in C
                THEN RStrip(SubSeq(s, 1, Len(s) - 1), C) ELSE s

\* s.strip(chars); s.strip() is Strip(s, WS)
Strip(s, C) == RStrip(LStrip(s, C), C)

\* sep.join(parts)
RECURSIVE Join(_, _)
Join(parts, sep) ==
    IF parts = <<>> THEN <<>>
    ELSE IF Len(parts) = 1 THEN parts[1]
    ELSE parts[1] \o sep \o Join(Tail(parts), sep)

\* str.lower, on the words the model uses
LowerSym(c) ==
    CASE c = "Story" -> "story"
      [] c = "Scene" -> "scene"
      [] c = "Image" -> "image"
      [] c = "Prompt" -> "prompt"
      [] c = "Description" -> "description"
      [] OTHER -> c

Lower(s) == [i \in 1..Len(s) |-> LowerSym(s[i])]

\* number of characters of a symbol sequence (len), for the `< 30` test
SymLen(c) ==
    CASE c = "Story" -> 5
      [] c = "story" -> 5
      [] c = "Scene" -> 5
      [] c = "Image" -> 5
      [] c = "image" -> 5
      [] c = "Prompt" -> 6
      [] c = "prompt" -> 6
      [] c = "Description" -> 11
      [] c = "long" -> 30
      [] c = FENCE -> 3
      [] c = "fox" -> 3
      [] c = "bear" -> 4
      [] c = "raft" -> 4
      [] c = "of" -> 2
      [] c = "met" -> 3
      [] c = "They" -> 4
      [] c = "built" -> 5
      [] c = "png" -> 3
      [] OTHER -> 1

RECURSIVE CharLen(_)
CharLen(s) == IF s = <<>> THEN 0 ELSE SymLen(Head(s)) + CharLen(Tail(s))

(***************************************************************************)
(* Markers the source looks for                                            *)
(***************************************************************************)
STORY_MARKER == <<"*", "*", "Story", ":", "*", "*">>
SCENE_MARKER == <<"*", "*", "Scene">>
IMAGE_PROMPT_MARKER == <<"*", "*", "Image", " ", "Prompt", ":", "*", "*">>
IMAGE_MARKER == <<"*", "*", "Image", ":", "*", "*">>
IMAGE_DESCRIPTION_MARKER == <<"*", "*", "Image", " ", "Description", ":", "*", "*">>
SECTION2_MARKER == <<"#", "#", " ", "Scene">>
SECTION1_MARKER == <<"#", " ", "Scene">>

has_story_markers(lines) ==
    \E i \in 1..Len(lines) :
        Contains(lines[i], STORY_MARKER) \/ Contains(lines[i], SCENE_MARKER)

has_section_markers(lines) ==
    \E i \in 1..Len(lines) :
        Contains(lines[i], SECTION2_MARKER) \/ Contains(lines[i], SECTION1_MARKER)

has_story_keyword(lines) ==
    \E i \in 1..Len(lines) : Contains(Lower(lines[i]), <<"story">>)

\* 'image prompt' in line.lower() or 'image:' in line.lower()
IsImageLine(line) ==
    \/ Contains(Lower(line), <<"image", " ", "prompt">>)
    \/ Contains(Lower(line), <<"image", ":">>)

\* current_segment += ' ' (when non-empty); current_segment += piece
AddPiece(cur, piece) == (IF cur # <<>> THEN cur \o <<SP>> ELSE cur) \o piece

\* if current_segment: story_segments.append(current_segment); current_segment = ""
Flush(st) ==
    IF st.current_segment # <<>>
    THEN [st EXCEPT !.story_segments = Append(@, st.current_segment),
                    !.current_segment = <<>>]
    ELSE st

ParseInit == [story_segments |-> <<>>, current_segment |-> <<>>,
              in_story_section |-> FALSE]

\* one iteration of the explicit-marker loop
MarkerStep(st, rawline) ==
    LET line == Strip(rawline, WS) IN
    IF line = <<>> THEN st
    ELSE IF Contains(line, IMAGE_PROMPT_MARKER) THEN st
    ELSE IF Contains(line, STORY_MARKER) THEN
        LET story_text == Strip(Split(line, STORY_MARKER)[2], WS) IN
        [st EXCEPT !.in_story_section = TRUE,
                   !.current_segment = IF story_text # <<>> THEN story_text ELSE @]
    ELSE IF st.in_story_section
            /\ ~(Contains(line, SCENE_MARKER) \/ Contains(line, IMAGE_MARKER)) THEN
        [st EXCEPT !.current_segment = AddPiece(@, Strip(line, {"*", " "}))]
    ELSE IF Contains(line, SCENE_MARKER) THEN
        LET parts == SplitOnce(line, <<":">>) IN
        [Flush(st) EXCEPT !.in_story_section = TRUE,
                          !.current_segment =
                              IF Len(parts) > 1 THEN Strip(parts[2], WS) ELSE @]
    ELSE IF Contains(line, IMAGE_MARKER) THEN st
    ELSE IF st.in_story_section THEN
        [st EXCEPT !.current_segment = AddPiece(@, Strip(line, {"*", " "}))]
    ELSE st

RECURSIVE MarkerParse(_, _)
MarkerParse(st, lines) ==
    IF lines = <<>> THEN st
    ELSE MarkerParse(MarkerStep(st, Head(lines)), Tail(lines))

\* one iteration of the markdown-header loop
SectionStep(st, rawline) ==
    LET line == Strip(rawline, WS) IN
    IF line = <<>> THEN st
    ELSE IF StartsWith(line, SECTION2_MARKER) \/ StartsWith(line, SECTION1_MARKER) THEN
        LET parts == SplitOnce(line, <<":">>) IN
        [Flush(st) EXCEPT !.in_story_section = TRUE,
                          !.current_segment =
                              IF Len(parts) > 1 THEN Strip(parts[2], WS) ELSE @]
    ELSE IF IsImageLine(line) THEN st
    ELSE IF st.in_story_section THEN
        [st EXCEPT !.current_segment = AddPiece(@, Strip(line, WS))]
    ELSE st

RECURSIVE SectionParse(_, _)
SectionParse(st, lines) ==
    IF lines = <<>> THEN st
    ELSE SectionParse(SectionStep(st, Head(lines)), Tail(lines))

\* one iteration of the paragraph loop; current_segment holds `paragraph`
ParagraphStep(st, rawline) ==
    LET line == Strip(rawline, WS) IN
    IF IsImageLine(line) THEN st
    ELSE IF line = <<>> THEN Flush(st)
    ELSE [st EXCEPT !.current_segment = AddPiece(@, line)]

RECURSIVE ParagraphParse(_, _)
ParagraphParse(st, lines) ==
    IF lines = <<>> THEN st
    ELSE ParagraphParse(ParagraphStep(st, Head(lines)), Tail(lines))

\* the last-resort filter: TRUE for a line that goes to content_lines
IsContentLine(line) ==
    /\ line # <<>>
    /\ ~(\/ StartsWith(line, <<FENCE>>)
         \/ StartsWith(line, <<"Image", ":">>)
         \/ Contains(Lower(line), <<"prompt">>))
    /\ ~(\/ StartsWith(line, <<"#">>) /\ CharLen(line) < 30
         \/ /\ StartsWith(line, <<"*", "*">>) /\ EndsWith(line, <<"*", "*">>)
            /\ CharLen(line) < 30)

RECURSIVE ContentLines(_)
ContentLines(lines) ==
    IF lines = <<>> THEN <<>>
    ELSE LET line == Strip(Head(lines), WS) IN
         (IF IsContentLine(line) THEN <<line>> ELSE <<>>) \o ContentLines(Tail(lines))

\* a choice of tier that looks for markdown headers before explicit markers
SelectedTierHeadersFirst(lines) ==
    IF has_section_markers(lines) THEN "headers"
    ELSE IF has_story_markers(lines) THEN "markers"
    ELSE IF has_story_keyword(lines) THEN "paragraphs"
    ELSE "last_resort"

\* the branch of the if / elif / elif / else chain that runs
SelectedTier(lines) ==
    IF has_story_markers(lines) THEN "markers"
    ELSE IF has_section_markers(lines) THEN "headers"
    ELSE IF has_story_keyword(lines) THEN "paragraphs"
    ELSE "last_resort"

\* story_segments as the branch named leaves them, the segment still open
\* at the end of the text added
TierSegments(name, lines) ==
    CASE name = "markers" -> Flush(MarkerParse(ParseInit, lines)).story_segments
      [] name = "headers" -> Flush(SectionParse(ParseInit, lines)).story_segments
      [] name = "paragraphs" -> Flush(ParagraphParse(ParseInit, lines)).story_segments
      [] OTHER -> LET content_lines == ContentLines(lines) IN
                  IF content_lines # <<>> THEN <<Join(content_lines, <<SP>>)>> ELSE <<>>

\* story_segments of collect_complete_story, as they are when the tiers are done
StorySegments(raw_text) ==
    LET lines == Split(raw_text, <<NL>>) IN
    TierSegments(SelectedTier(lines), lines)

(***************************************************************************)
(* The regular expressions of collect_complete_story                       *)
(***************************************************************************)
\* \d+ : a word made of digits only
IsDigits(c) == c \in {"0", "1", "2", "3", "4", "5", "6", "7", "8", "9", "10", "11", "12"}

HasNL(s) == \E i \in 1..Len(s) : s[i] = NL

\* length of the match of  pre .*? post  at the head of s, 0 if none
\* ('.' matches a newline only with re.DOTALL)
LazyMatchLen(s, pre, post, dotall) ==
    IF ~StartsWith(s, pre) THEN 0
    ELSE LET q == FindFrom(s, post, Len(pre) + 1) IN
         IF q = 0 THEN 0
         ELSE IF ~dotall /\ HasNL(SubSeq(s, Len(pre) + 1, q - 1)) THEN 0
         ELSE q + Len(post) - 1

\* re.sub(pre .*? post, '' or r'\1', s)
RECURSIVE SubLazy(_, _, _, _, _)
SubLazy(s, pre, post, dotall, keep_inner) ==
    IF s = <<>> THEN <<>>
    ELSE LET n == LazyMatchLen(s, pre, post, dotall) IN
         IF n = 0 THEN <<Head(s)>> \o SubLazy(Tail(s), pre, post, dotall, keep_inner)
         ELSE (IF keep_inner THEN SubSeq(s, Len(pre) + 1, n - Len(post)) ELSE <<>>)
              \o SubLazy(SubSeq(s, n + 1, Len(s)), pre, post, dotall, keep_inner)

\* length of the run of digit words at the head of s
RECURSIVE DigitRun(_)
DigitRun(s) == IF s # <<>> /\ IsDigits(Head(s)) THEN 1 + DigitRun(Tail(s)) ELSE 0

\* length of the match of \*\*Scene \d+:?\*\* at the head of s, 0 if none
SceneBoldLen(s) ==
    IF StartsWith(s, <<"*", "*", "Scene", " ">>) THEN
        LET rest == SubSeq(s, 5, Len(s))
            d == DigitRun(rest)
            tail == SubSeq(rest, d + 1, Len(rest))
        IN IF d = 0 THEN 0
           ELSE IF StartsWith(tail, <<":", "*", "*">>) THEN 4 + d + 3
           ELSE IF StartsWith(tail, <<"*", "*">>) THEN 4 + d + 2
           ELSE 0
    ELSE 0

\* length of the match of Scene \d+: at the head of s, 0 if none
SceneLabelLen(s) ==
    IF StartsWith(s, <<"Scene", " ">>) THEN
        LET rest == SubSeq(s, 3, Len(s))
            d == DigitRun(rest)
        IN IF d > 0 /\ Len(rest) > d /\ rest[d + 1] = ":" THEN 2 + d + 1 ELSE 0
    ELSE 0

\* length of the match of #+ followed by a space at the head of s, 0 if none
RECURSIVE HashRun(_)
HashRun(s) == IF s # <<>> /\ Head(s) = "#" THEN 1 + HashRun(Tail(s)) ELSE 0

HeaderLen(s) ==
    LET n == HashRun(s) IN
    IF n > 0 /\ Len(s) > n /\ s[n + 1] = SP THEN n + 1 ELSE 0

\* length of the match of !\[.*?\]\(.*?\) at the head of s, 0 if none
ImageMarkdownLen(s) ==
    LET n == LazyMatchLen(s, <<"!", "[">>, <<"]", "(">>, FALSE) IN
    IF n = 0 THEN 0
    ELSE LET q == FindFrom(s, <<")">>, n + 1) IN
         IF q = 0 \/ HasNL(SubSeq(s, n + 1, q - 1)) THEN 0 ELSE q

\* re.sub of a pattern given by the length of its match at the head, by ''
RECURSIVE SubSceneBold(_)
SubSceneBold(s) ==
    IF s = <<>> THEN <<>>
    ELSE IF SceneBoldLen(s) > 0 THEN SubSceneBold(SubSeq(s, SceneBoldLen(s) + 1, Len(s)))
    ELSE <<Head(s)>> \o SubSceneBold(Tail(s))

RECURSIVE SubSceneLabel(_)
SubSceneLabel(s) ==
    IF s = <<>> THEN <<>>
    ELSE IF SceneLabelLen(s) > 0 THEN SubSceneLabel(SubSeq(s, SceneLabelLen(s) + 1, Len(s)))
    ELSE <<Head(s)>> \o SubSceneLabel(Tail(s))

RECURSIVE SubHeader(_)
SubHeader(s) ==
    IF s = <<>> THEN <<>>
    ELSE IF HeaderLen(s) > 0 THEN SubHeader(SubSeq(s, HeaderLen(s) + 1, Len(s)))
    ELSE <<Head(s)>> \o SubHeader(Tail(s))

RECURSIVE SubImageMarkdown(_)
SubImageMarkdown(s) ==
    IF s = <<>> THEN <<>>
    ELSE IF ImageMarkdownLen(s) > 0
         THEN SubImageMarkdown(SubSeq(s, ImageMarkdownLen(s) + 1, Len(s)))
    ELSE <<Head(s)>> \o SubImageMarkdown(Tail(s))

\* end of the match of  .*?(\n|$)  started at position from: the first newline at
\* or after from, else the end of the text
LineEnd(s, from) ==
    LET q == FindFrom(s, <<NL>>, from) IN IF q = 0 THEN Len(s) ELSE q

\* p occurs in s at position q
MatchAt(s, p, q) == q + Len(p) - 1 <= Len(s) /\ SubSeq(s, q, q + Len(p) - 1) = p

\* first position >= from where one of the patterns of the set P occurs, 0 if none
RECURSIVE FindAnyFrom(_, _, _)
FindAnyFrom(s, P, from) ==
    IF from > Len(s) THEN 0
    ELSE IF \E p \in P : MatchAt(s, p, from) THEN from
    ELSE FindAnyFrom(s, P, from + 1)

\* length of the pattern of P that matches at position q
PatLenAt(s, P, q) ==
    LET p == CHOOSE x \in P : MatchAt(s, x, q) IN Len(p)

\* re.sub(PAT.*?(\n|$), '', s)  for PAT one of the literal patterns of P
RECURSIVE SubToLineEnd(_, _)
SubToLineEnd(s, P) ==
    LET q == FindAnyFrom(s, P, 1) IN
    IF q = 0 THEN s
    ELSE LET e == LineEnd(s, q + PatLenAt(s, P, q)) IN
         SubSeq(s, 1, q - 1) \o SubToLineEnd(SubSeq(s, e + 1, Len(s)), P)

\* re.sub(.*?PAT.*?(\n|$), '', s): the match starts at the beginning of the line
\* on which PAT occurs (.*? cannot cross a newline)
RECURSIVE SubLineOf(_, _)
SubLineOf(s, P) ==
    LET q == FindAnyFrom(s, P, 1) IN
    IF q = 0 THEN s
    ELSE LET before == SubSeq(s, 1, q - 1)
             nls == {i \in 1..Len(before) : before[i] = NL}
             start == IF nls = {} THEN 1
                      ELSE (CHOOSE i \in nls : \A j \in nls : j <= i) + 1
             e == LineEnd(s, q + PatLenAt(s, P, q))
         IN SubSeq(s, 1, start - 1) \o SubLineOf(SubSeq(s, e + 1, Len(s)), P)

IMAGE_PROMPT_PATTERNS ==
    {<<i, " ", p, ":">> : i \in {"Image", "image"}, p \in {"Prompt", "prompt"}}

BOLD_IMAGE_PATTERNS ==
    {<<"*", "*", i, ":", "*", "*">> : i \in {"Image", "image"}}
    \cup {<<"*", "*", i, "*", "*">> : i \in {"Image", "image"}}

IMAGE_COLON_PATTERNS == {<<i, ":">> : i \in {"Image", "image"}}

\* the first position from i on of a symbol of C in s; Len(s) + 1 when there is none
RECURSIVE FirstOf(_, _, _)
FirstOf(s, C, i) ==
    IF i > Len(s) \/ s[i] \in C THEN i ELSE FirstOf(s, C, i + 1)

\* ' '.join(s.split())
RECURSIVE Words(_)
Words(s) ==
    LET t == LStrip(s, WS) IN
    IF t = <<>> THEN <<>>
    ELSE LET e == FirstOf(t, WS, 1)
         IN <<SubSeq(t, 1, e - 1)>> \o Words(SubSeq(t, e, Len(t)))

NormalizeSpace(s) == Join(Words(s), <<SP>>)

RemoveSym(s, c) == SelectSeq(s, LAMBDA x : x # c)

\* the segment-level cleaning
CleanSegment(segment) ==
    Strip(RemoveSym(SubLazy(SubSceneBold(segment), <<"*", "*">>, <<"*", "*">>, FALSE, TRUE),
                    "*"), WS)

RECURSIVE CleanSegments(_)
CleanSegments(segs) ==
    IF segs = <<>> THEN <<>>
    ELSE LET c == CleanSegment(Head(segs)) IN
         (IF c # <<>> THEN <<c>> ELSE <<>>) \o CleanSegments(Tail(segs))

\* the global cleaning of the joined story
CleanStory(joined) ==
    LET s1 == SubHeader(joined)
        s2 == SubLineOf(s1, IMAGE_PROMPT_PATTERNS)
        s3 == SubToLineEnd(s2, BOLD_IMAGE_PATTERNS)
        s4 == SubToLineEnd(s3, IMAGE_COLON_PATTERNS)
        s5 == SubImageMarkdown(s4)
        s6 == SubLazy(s5, <<"(", "Image", " ", "of", " ">>, <<")">>, FALSE, FALSE)
        s7 == SubSceneLabel(s6)
        s8 == SubLazy(s7, <<FENCE>>, <<FENCE>>, TRUE, FALSE)
    IN NormalizeSpace(s8)

\* the raw-text fallback of an empty result
FallbackText(raw_text) ==
    NormalizeSpace(SubLazy(SubLazy(raw_text, <<"*", "*">>, <<"*", "*">>, FALSE, FALSE),
                           <<FENCE>>, <<FENCE>>, TRUE, FALSE))

\* collect_complete_story(raw_text, return_segments=True)
collect_segments(raw_text) == StorySegments(raw_text)

\* collect_complete_story(raw_text)
collect_complete_story(raw_text) ==
    LET complete_story == CleanStory(Join(CleanSegments(StorySegments(raw_text)), <<SP>>)) IN
    IF Strip(complete_story, WS) = <<>> THEN FallbackText(raw_text) ELSE complete_story

(***************************************************************************)
(* Bounds of the model and constants of the program                        *)
(***************************************************************************)
\* text-carrying units one stream may deliver
MaxTextUnits == 2
\* image units one stream may deliver
MaxImages == 8
\* texts and images of a stream in which a chunk failed to decode
MaxErrTextUnits == 1
MaxErrImages == 1
\* nested restarts of generate (the source has no limit)
MaxRestarts == 1
\* max_retries of the regeneration loop of generate; the source sets 1000
MaxRegen == 2

\* lines of a text given to collect_complete_story on its own
MaxLines == 2
\* calls of collect_complete_story, each on the result of the one before
MaxCalls == 2
\* images that come with such a text
MaxEvalImages == 2

max_json_errors == 5
min_segments == 6
max_retries == 5
retry_delay == 7
min_images == 4

(***************************************************************************)
(* What the generative source may deliver                                  *)
(***************************************************************************)
SceneLine(n) == <<"*", "*", "Scene", " ", n, ":", "*", "*", " ", "fox", NL>>

\* a story of six scenes, a story of two scenes, an image described in words
T6 == SceneLine("1") \o SceneLine("2") \o SceneLine("3") \o SceneLine("4")
      \o SceneLine("5") \o SceneLine("6")
T2 == SceneLine("1") \o SceneLine("2")
TDESC == IMAGE_DESCRIPTION_MARKER \o <<" ", "fox", NL>>
\* the raw body of a response that failed to decode
TRAW == <<FENCE, "fox", FENCE, "bear", NL>>

Texts == {T6, T2, TDESC}

\* **Story:** A fox met a bear. **Scene 2:** They built a raft. **Image:** raft.png
TFOX == STORY_MARKER \o <<" ", "A", " ", "fox", " ", "met", " ", "a", " ", "bear", ".", " ">>
        \o <<"*", "*", "Scene", " ", "2", ":", "*", "*">>
        \o <<" ", "They", " ", "built", " ", "a", " ", "raft", ".", " ">>
        \o IMAGE_MARKER \o <<" ", "raft", ".", "png">>

\* lines a text may be made of: one for each marker the tiers and the cleaning
\* look for, a plain line, an empty line, a bold line, a line of two stars,
\* a scene label with two spaces in it
EvalLines ==
    {STORY_MARKER \o <<" ", "fox">>,
     <<"*", "*", "Scene", " ", "1", ":", "*", "*", " ", "fox">>,
     <<"*", "*", "Scene", " ", "2", "*", "*", " ", "bear">>,
     IMAGE_MARKER \o <<" ", "raft">>,
     IMAGE_PROMPT_MARKER \o <<" ", "fox">>,
     <<"#", "#", " ", "Scene", " ", "1", ":", " ", "fox">>,
     <<"A", " ", "story", " ", "of", " ", "bear">>,
     <<"bear">>,
     <<>>,
     <<"*", "*", "fox", "*", "*">>,
     <<"*", "*">>,
     <<"Scene", " ", " ", "1", ":", " ", "fox">>}

\* the texts of at most n lines
RECURSIVE TextsOfLines(_)
TextsOfLines(n) ==
    IF n = 1 THEN EvalLines
    ELSE TextsOfLines(n - 1)
         \cup {t \o <<NL>> \o l : t \in TextsOfLines(n - 1), l \in EvalLines}

EvalTexts == TextsOfLines(MaxLines) \cup {TFOX, T6}

Unit(kind, text, has_raw, after_image) ==
    [kind |-> kind, text |-> text, has_raw |-> has_raw, after_image |-> after_image]

\* a chunk as the loop body sees it: a bare string (text holds it), or an object
\* with or without candidates, with or without content parts, whose first part
\* has inline data or not and a text or none, and whose .text is text
Chunk(is_str, has_candidates, has_parts, inline_data, part_text, text) ==
    [is_str |-> is_str, has_candidates |-> has_candidates, has_parts |-> has_parts,
     inline_data |-> inline_data, part_text |-> part_text, text |-> text]

NoChunk == Chunk(FALSE, FALSE, FALSE, FALSE, <<>>, <<>>)

\* a classification that looks at the text of the part before its inline data
ChunkKindTextFirst(c) ==
    IF c.is_str THEN "str"
    ELSE IF ~c.has_candidates THEN "nocand"
    ELSE IF ~c.has_parts THEN "noparts"
    ELSE IF c.part_text # <<>> THEN "text"
    ELSE IF c.inline_data THEN "image"
    ELSE "blank"

\* the tests of the loop body, in their order
ChunkKind(c) ==
    IF c.is_str THEN "str"
    ELSE IF ~c.has_candidates THEN "nocand"
    ELSE IF ~c.has_parts THEN "noparts"
    ELSE IF c.inline_data THEN "image"
    ELSE IF c.part_text # <<>> THEN "text"
    ELSE "blank"

\* the unit a chunk is: its kind, and the text the branch of that kind reads
\* (part.text in the text branch, chunk.text or the string itself elsewhere)
UnitOf(c) ==
    [kind |-> ChunkKind(c),
     text |-> IF ChunkKind(c) = "text" THEN c.part_text ELSE c.text,
     has_raw |-> FALSE, after_image |-> FALSE]

\* the units of a stream: a bare string, a chunk without candidates, a chunk
\* without content parts, a chunk whose first part is an image, a text or neither,
\* a chunk whose processing raises JSONDecodeError (with or without a raw
\* response text), a chunk whose processing raises another exception (before
\* anything was stored, or after the image was stored)
StreamUnits ==
    {Unit(k, t, FALSE, FALSE) : k \in {"str", "nocand", "noparts", "text"}, t \in Texts}
    \cup {Unit(k, <<>>, FALSE, FALSE) : k \in {"nocand", "noparts", "blank", "image"}}
    \cup {Unit("json_error", <<>>, FALSE, FALSE), Unit("json_error", TRAW, TRUE, FALSE)}
    \cup {Unit("error", <<>>, FALSE, b) : b \in BOOLEAN}

Part(kind, text) == [kind |-> kind, text |-> text]
IMG == Part("image", <<>>)

Images(n) == [i \in 1..n |-> IMG]

\* the responses of a non-streaming request, each a sequence of parts
Responses ==
    {<<Part("text", T6)>> \o Images(n) : n \in {0, 4, 5, 6}}
    \cup {<<Part("text", T2)>> \o Images(2),
          <<IMG, Part("text", T2), IMG, Part("text", T6)>> \o Images(6),
          <<Part("text", TDESC), Part("text", T6)>> \o Images(6),
          <<Part("blank", <<>>)>>,
          Images(1)}

\* the prompts: each phrase is one symbol
GENERATE_A_STORY == "Generate a story about"
GENERATE_DETAILED == "Generate a detailed story with at least 6 scenes about"
ONE_IMAGE_SENTENCE == " Please create one clear image for each scene in the story."
DEFAULT_PROMPT == <<GENERATE_A_STORY, "a white baby goat named Pip", "For each scene, generate an image">>
GENERATED_PROMPT == <<GENERATE_A_STORY, "an owl", "with one image per scene">>
DEFAULT_INPUT == <<"Create a unique children's story">>

(***************************************************************************)
(* State                                                                   *)
(***************************************************************************)
VARIABLES
    entry,                 \* the function called: "generate" or "retry_story_generation"
    use_prompt_generator,  \* its argument
    pc,                    \* position in the running function
    prompt_text, temp_dir, story_text, image_files,
    use_streaming, image_found, json_errors, contains_image_description,
    text_units,            \* text-carrying units delivered by the current stream
    last_unit,             \* kind of the unit the open stream delivered last
    response,              \* parts of the response to the last fallback request
    retry_count, segments_count, images_count, needs_regeneration,
    complete_story, enhanced_prompt,
    output_path, thumbnail_path, metadata,
    result,                \* result of generation_wrapper in retry_story_generation
    ret,                   \* what the called function returned
    attempts,              \* generation requests made so far (streams, regenerations,
                           \* calls of generation_wrapper)
    fallbacks,             \* non-streaming fallback requests made in the current attempt
    sleeps, slept,         \* calls of time.sleep, and the seconds slept in all
    last_ev,               \* the last of: "attempt", "fallback", "sleep", "restart", a stage
    stages,                \* the stages run after generation, in order
    restarts,              \* depth of the recursion of generate
    caller_prompt_text,    \* prompt_text of the call that called generate again, kept
                           \* until the new call has made its own prompt
    uploaded,              \* what upload_to_google_drive has uploaded, in order
    story_text_retry,      \* the text of the last regeneration attempt
    image_files_retry,     \* the files the last regeneration attempt wrote
    chunk,                 \* the unit a single pass of the stream loop body is given
    story_segments, tier,  \* collect_complete_story: its segments, the tier it took
    calls                  \* calls of collect_complete_story made on the text at hand

params == <<entry, use_prompt_generator>>
locals == <<prompt_text, temp_dir, story_text, image_files, use_streaming, image_found,
            json_errors, contains_image_description, text_units>>
frame == <<locals, last_unit, response>>
regen == <<retry_count, segments_count, images_count, needs_regeneration,
           complete_story, enhanced_prompt>>
post == <<output_path, thumbnail_path, metadata>>
hist == <<attempts, fallbacks, sleeps, slept, last_ev, stages, restarts, caller_prompt_text,
          uploaded>>
callee == <<chunk, story_segments, tier, calls>>
vars == <<params, pc, frame, regen, post, result, ret, hist, callee, story_text_retry, image_files_retry>>

NoResult == [kind |-> "pending", story_text |-> <<>>, image_files |-> <<>>,
             output_path |-> "None", thumbnail_path |-> "None", metadata |-> "None"]
NoneResult == [NoResult EXCEPT !.kind = "None"]

\* a path in a temporary directory: image_{idx}.jpg or image_retry_{idx}.jpg
ImgPath(dir, stem, idx) == [dir |-> dir, stem |-> stem, idx |-> idx]

\* the locals of a fresh call
FreshFrame ==
    /\ prompt_text' = <<>>
    /\ temp_dir' = 0
    /\ story_text' = <<>>
    /\ image_files' = <<>>
    /\ use_streaming' = TRUE
    /\ image_found' = FALSE
    /\ json_errors' = 0
    /\ contains_image_description' = FALSE
    /\ text_units' = 0
    /\ last_unit' = "none"
    /\ response' = <<>>

FreshRegen ==
    /\ image_files_retry' = <<>>
    /\ story_text_retry' = <<>>
    /\ retry_count' = 0
    /\ segments_count' = 0
    /\ images_count' = 0
    /\ needs_regeneration' = FALSE
    /\ complete_story' = <<>>
    /\ enhanced_prompt' = <<>>

FreshPost ==
    /\ output_path' = "None"
    /\ thumbnail_path' = "None"
    /\ metadata' = "None"

Init ==
    /\ entry \in {"generate", "retry_story_generation"}
    /\ use_prompt_generator \in BOOLEAN
    /\ pc = IF entry = "generate" THEN "g_client" ELSE "r_loop"
    /\ prompt_text = <<>> /\ temp_dir = 0 /\ story_text = <<>> /\ image_files = <<>>
    /\ use_streaming = TRUE /\ image_found = FALSE /\ json_errors = 0
    /\ contains_image_description = FALSE /\ text_units = 0 /\ last_unit = "none"
    /\ response = <<>>
    /\ retry_count = 0 /\ segments_count = 0 /\ images_count = 0
    /\ needs_regeneration = FALSE /\ complete_story = <<>> /\ enhanced_prompt = <<>>
    /\ output_path = "None" /\ thumbnail_path = "None" /\ metadata = "None"
    /\ result = "unset"
    /\ ret = NoResult
    /\ attempts = 0 /\ fallbacks = 0 /\ sleeps = 0 /\ slept = 0
    /\ last_ev = "none" /\ stages = <<>> /\ restarts = 0 /\ caller_prompt_text = <<>>
    /\ uploaded = <<>>
    /\ chunk = NoChunk /\ story_segments = <<>> /\ tier = "none" /\ calls = 0
    /\ image_files_retry = <<>>
    /\ story_text_retry = <<>>

(***************************************************************************)
(* Processing of one stream unit (the body of `for chunk in stream`)       *)
(***************************************************************************)
Locals == [story_text |-> story_text, image_files |-> image_files,
           image_found |-> image_found, json_errors |-> json_errors,
           contains_image_description |-> contains_image_description,
           broke |-> FALSE]

\* an append that also clears the count of decode errors
AddTextResetsCount(L, text) ==
    [L EXCEPT !.story_text = @ \o text,
              !.contains_image_description =
                  @ \/ Contains(text, IMAGE_DESCRIPTION_MARKER),
              !.json_errors = 0]

\* story_text += text, and the scan for the image-description marker
AddText(L, text) ==
    [L EXCEPT !.story_text = @ \o text,
              !.contains_image_description =
                  @ \/ Contains(text, IMAGE_DESCRIPTION_MARKER)]

\* an image put at the head of the list
AddImageFirst(L) ==
    [L EXCEPT !.image_found = TRUE,
              !.image_files = <<ImgPath(temp_dir, "image", Len(@))>> \o @]

\* the image is written to image_{len(image_files)}.jpg and appended
AddImage(L) ==
    [L EXCEPT !.image_found = TRUE,
              !.image_files = Append(@, ImgPath(temp_dir, "image", Len(@)))]

\* a handler that leaves the loop at the first decode error
OnJsonErrorAborts(L, u) == [L EXCEPT !.json_errors = @ + 1, !.broke = TRUE]

\* a handler that appends the raw text as it is
OnJsonErrorRawText(L, u) ==
    LET n == L.json_errors + 1 IN
    IF n >= max_json_errors
    THEN [L EXCEPT !.json_errors = n,
                   !.story_text = IF u.has_raw THEN @ \o u.text ELSE @,
                   !.broke = TRUE]
    ELSE [L EXCEPT !.json_errors = n]

\* the handler of json.decoder.JSONDecodeError
OnJsonError(L, u) ==
    LET n == L.json_errors + 1 IN
    IF n >= max_json_errors
    THEN [L EXCEPT !.json_errors = n,
                   !.story_text = IF u.has_raw
                                  THEN @ \o SubLazy(u.text, <<FENCE>>, <<FENCE>>, TRUE, FALSE)
                                  ELSE @,
                   !.broke = TRUE]
    ELSE [L EXCEPT !.json_errors = n]

\* a handler that counts every exception as a decode error
OnExceptionCounted(L, u) ==
    OnJsonError(IF u.after_image THEN AddImage(L) ELSE L, u)

\* the handler `except Exception as e`: prints and goes on with the next chunk;
\* what the body stored before it raised stays stored
OnException(L, u) == IF u.after_image THEN AddImage(L) ELSE L

ProcessChunk(L, u) ==
    CASE u.kind = "str" -> AddText(L, u.text)
      [] u.kind \in {"nocand", "noparts"} ->
            IF u.text # <<>> THEN AddText(L, u.text) ELSE L
      [] u.kind = "image" -> AddImage(L)
      [] u.kind = "text" -> AddText(L, u.text)
      [] u.kind = "blank" -> L
      [] u.kind = "json_error" -> OnJsonError(L, u)
      [] u.kind = "error" -> OnException(L, u)

\* the units the bounds of the model let the stream deliver now
Deliverable(u) ==
    /\ (u.kind \in {"str", "nocand", "noparts", "text"} /\ u.text # <<>>)
            => text_units < (IF json_errors > 0 THEN MaxErrTextUnits ELSE MaxTextUnits)
    /\ (u.kind = "image" \/ (u.kind = "error" /\ u.after_image))
            => Len(image_files) < (IF json_errors > 0 THEN MaxErrImages ELSE MaxImages)
    /\ u.kind = "json_error"
            => text_units <= MaxErrTextUnits /\ Len(image_files) <= MaxErrImages

CarriesText(u) == u.kind \in {"str", "nocand", "noparts", "text"} /\ u.text # <<>>

StoreLocals(L) ==
    /\ story_text' = L.story_text
    /\ image_files' = L.image_files
    /\ image_found' = L.image_found
    /\ json_errors' = L.json_errors
    /\ contains_image_description' = L.contains_image_description

(***************************************************************************)
(* Processing of a non-streaming response                                  *)
(***************************************************************************)
\* the loop over response.candidates[0].content.parts: images and texts
RECURSIVE ProcessParts(_, _, _)
ProcessParts(acc, parts, stem) ==
    IF parts = <<>> THEN acc
    ELSE LET p == Head(parts)
             nxt == CASE p.kind = "image" ->
                            [acc EXCEPT !.image_files =
                                Append(@, ImgPath(temp_dir, stem, Len(@)))]
                      [] p.kind = "text" -> [acc EXCEPT !.story_text = @ \o p.text]
                      [] OTHER -> acc
         IN ProcessParts(nxt, Tail(parts), stem)

\* the loop of the fallback after a failed stream: texts only
RECURSIVE ProcessTextParts(_, _)
ProcessTextParts(text, parts) ==
    IF parts = <<>> THEN text
    ELSE ProcessTextParts(IF Head(parts).kind = "text" THEN text \o Head(parts).text
                          ELSE text, Tail(parts))

(***************************************************************************)
(* The prompt of a regeneration attempt                                    *)
(***************************************************************************)
\* `phrase in prompt`
HasPhrase(prompt, phrase) == \E i \in 1..Len(prompt) : prompt[i] = phrase

\* prompt.replace(old, new)
ReplacePhrase(prompt, old, new) ==
    [i \in 1..Len(prompt) |-> IF prompt[i] = old THEN new ELSE prompt[i]]

EnhancePrompt(prompt) ==
    LET p1 == IF ~HasPhrase(prompt, "with at least 6 detailed scenes")
              THEN ReplacePhrase(prompt, GENERATE_A_STORY, GENERATE_DETAILED)
              ELSE prompt
    IN IF ~HasPhrase(p1, "with one image per scene")
       THEN p1 \o <<ONE_IMAGE_SENTENCE>>
       ELSE p1

(***************************************************************************)
(* generate (main_generator.py)                                            *)
(***************************************************************************)
\* a generation request starts an attempt
NewAttempt == attempts' = attempts + 1 /\ fallbacks' = 0 /\ last_ev' = "attempt"

\* a non-streaming fallback request
NewFallback == fallbacks' = fallbacks + 1 /\ last_ev' = "fallback"

\* a stage after generation
Stage(name) == stages' = Append(stages, name) /\ last_ev' = name

\* a sleep that returns at once
sleep_skipped(seconds) == UNCHANGED <<sleeps, slept>> /\ last_ev' = "sleep"

\* time.sleep(seconds)
sleep(seconds) == sleeps' = sleeps + 1 /\ slept' = slept + seconds /\ last_ev' = "sleep"

ResultRecord == [kind |-> "record", story_text |-> story_text,
                 image_files |-> image_files, output_path |-> output_path,
                 thumbnail_path |-> thumbnail_path, metadata |-> metadata]

\* a return of the record where the source has a bare `return`
ReturnRecordInstead == ret' = ResultRecord /\ pc' = "returned"

\* a bare `return`
ReturnNone == ret' = NoneResult /\ pc' = "returned"

\* `return {...}` at the end of generate, with the values the locals have
\* in the current state
ReturnRecord == ret' = ResultRecord /\ pc' = "returned"

\* genai.Client(...)
G_Client ==
    /\ pc = "g_client"
    /\ \/ pc' = "g_prompt" /\ UNCHANGED ret
       \/ ReturnNone
    /\ UNCHANGED <<params, callee, story_text_retry, image_files_retry, frame, regen, post, result, hist>>

\* the prompt, the temporary directory, story_text = "" and image_files = [].
\* tempfile.mkdtemp returns a directory no earlier call returned: it is named
\* here by the number of the attempt that uses it first
G_Prompt ==
    /\ pc = "g_prompt"
    /\ prompt_text' \in (IF use_prompt_generator
                         THEN {GENERATED_PROMPT, DEFAULT_PROMPT}
                         ELSE {DEFAULT_PROMPT})
    /\ temp_dir' = attempts + 1
    /\ story_text' = <<>>
    /\ image_files' = <<>>
    /\ caller_prompt_text' = <<>>
    /\ pc' = "g_open"
    /\ UNCHANGED <<params, callee, story_text_retry, image_files_retry, response, use_streaming, image_found, json_errors,
                   contains_image_description, text_units, last_unit, regen, post, result, ret,
                   attempts, fallbacks, sleeps, slept, last_ev, stages, restarts, uploaded>>

\* client.models.generate_content_stream(...): a stream, a JSONDecodeError or
\* another exception
G_Open ==
    /\ pc = "g_open"
    /\ NewAttempt
    /\ \/ /\ pc' = "g_stream"
          /\ image_found' = FALSE
          /\ json_errors' = 0
          /\ contains_image_description' = FALSE
          /\ UNCHANGED <<use_streaming, ret>>
       \/ /\ pc' = "g_fallback"
          /\ use_streaming' = FALSE
          /\ UNCHANGED <<image_found, json_errors, contains_image_description, ret>>
       \/ /\ ReturnNone
          /\ UNCHANGED <<use_streaming, image_found, json_errors,
                         contains_image_description>>
    /\ UNCHANGED <<params, callee, story_text_retry, image_files_retry, response, prompt_text, temp_dir, story_text, image_files, text_units, last_unit,
                   regen, post, result, sleeps, slept, stages, restarts,
                   caller_prompt_text, uploaded>>

\* the non-streaming request made when the stream could not be created
G_Fallback ==
    /\ pc = "g_fallback"
    /\ NewFallback
    /\ \/ \E r \in Responses :
            LET acc == ProcessParts([story_text |-> story_text,
                                     image_files |-> image_files], r, "image") IN
            /\ story_text' = acc.story_text
            /\ image_files' = acc.image_files
            /\ image_found' = TRUE
            /\ response' = r
            /\ pc' = "g_post"
            /\ UNCHANGED ret
       \/ /\ ReturnNone
          /\ UNCHANGED <<story_text, image_files, image_found, response>>
    /\ UNCHANGED <<params, callee, story_text_retry, image_files_retry, prompt_text, temp_dir, use_streaming, json_errors,
                   contains_image_description, text_units, last_unit, regen, post, result,
                   attempts, sleeps, slept, stages, restarts,
                   caller_prompt_text, uploaded>>

\* one iteration of `for chunk in stream`
G_Chunk ==
    /\ pc = "g_stream"
    /\ \E u \in StreamUnits :
        /\ Deliverable(u)
        /\ LET L == ProcessChunk(Locals, u) IN
            /\ StoreLocals(L)
            /\ pc' = IF L.broke THEN "g_post" ELSE "g_stream"
            /\ last_unit' = IF L.broke THEN "none" ELSE u.kind
        /\ text_units' = IF CarriesText(u) THEN text_units + 1 ELSE text_units
    /\ UNCHANGED <<params, callee, story_text_retry, image_files_retry, response, prompt_text, temp_dir, use_streaming, regen, post, result,
                   ret, hist>>

\* the stream is exhausted
G_StreamEnd ==
    /\ pc = "g_stream"
    /\ pc' = "g_post"
    /\ last_unit' = "none"
    /\ UNCHANGED <<params, callee, story_text_retry, image_files_retry, response, locals, regen, post, result, ret, hist>>

\* the stream raises while it is iterated: the handler asks for a non-streaming
\* response when nothing was read and a chunk had failed to decode
G_StreamRaise ==
    /\ pc = "g_stream"
    /\ IF Strip(story_text, WS) = <<>> /\ json_errors > 0
       THEN /\ NewFallback
            /\ \/ \E r \in Responses :
                    /\ story_text' = ProcessTextParts(story_text, r)
                    /\ response' = r
               \/ UNCHANGED <<story_text, response>>
       ELSE UNCHANGED <<story_text, response, fallbacks, last_ev>>
    /\ pc' = "g_post"
    /\ last_unit' = "none"
    /\ UNCHANGED <<params, callee, story_text_retry, image_files_retry, prompt_text, temp_dir, image_files, use_streaming,
                   image_found, json_errors, contains_image_description, text_units,
                   regen, post, result, ret, attempts, sleeps, slept, stages, restarts,
                   caller_prompt_text, uploaded>>

\* a test that restarts whenever the stream gave no image
RestartWantedWithoutImages(found, described) == ~found \/ described

\* `if not image_found or contains_image_description:` and, inside it,
\* `if contains_image_description:` : generate is called again
RestartWanted(found, described) == (~found \/ described) /\ described

\* after the stream: restart on an image description.  When the stream was never
\* created contains_image_description was never assigned: reading it raises, and
\* the handler at the end of generate returns the record
G_Post ==
    /\ pc = "g_post"
    /\ IF image_found /\ ~use_streaming THEN
           /\ ReturnRecord
           /\ UNCHANGED <<frame, regen, post, hist, story_text_retry, image_files_retry>>
       ELSE IF RestartWanted(image_found, contains_image_description) THEN
           /\ restarts < MaxRestarts
           /\ restarts' = restarts + 1
           /\ caller_prompt_text' = prompt_text
           /\ last_ev' = "restart"
           /\ pc' = "g_client"
           /\ FreshFrame /\ FreshRegen /\ FreshPost
           /\ UNCHANGED <<ret, attempts, fallbacks, sleeps, slept, stages, uploaded>>
       ELSE
           /\ pc' = "g_eval"
           /\ UNCHANGED <<frame, regen, post, hist, ret, story_text_retry, image_files_retry>>
    /\ UNCHANGED <<params, callee, result>>

\* a test that accepts any attempt with as many images as segments
NeedsRegenerationImagesOnly(segs, imgs) == imgs < segs

\* (segments_count < min_segments) or (images_count < segments_count)
NeedsRegeneration(segs, imgs) == segs < min_segments \/ imgs < segs

\* the evaluation of the first attempt: the cleaned story, the counts, the verdict
Evaluate ==
    LET segs == Len(collect_segments(story_text)) IN
    /\ complete_story' = collect_complete_story(story_text)
    /\ segments_count' = segs
    /\ images_count' = Len(image_files)
    /\ retry_count' = 0
    /\ needs_regeneration' = NeedsRegeneration(segs, Len(image_files))

\* `if story_text and image_files:` and the first evaluation
G_Eval ==
    /\ pc = "g_eval"
    /\ IF story_text # <<>> /\ image_files # <<>> THEN
           /\ Evaluate
           /\ pc' = "g_loop"
           /\ UNCHANGED <<enhanced_prompt, ret>>
       ELSE
           /\ ReturnRecord
           /\ UNCHANGED regen
    /\ UNCHANGED <<params, callee, story_text_retry, image_files_retry, frame, post, result, hist>>

\* an acceptance test that looks at the images only
RetryAcceptedImagesOnly(segs, imgs) == 5 * imgs >= 4 * segs

\* the acceptance test of a regeneration attempt:
\* segments_count >= min_segments and images_count >= segments_count * 0.8
RetryAccepted(segs, imgs) == segs >= min_segments /\ 5 * imgs >= 4 * segs

\* a regeneration that names its files as the stream does
RetryStemAsStream == "image"

\* the files of a regeneration attempt: image_retry_{len(image_files_retry)}.jpg
RetryStem == "image_retry"

\* an acceptance that keeps the files held
AcceptedFilesKept(retry_files, files) == files

\* `if image_files_retry: image_files = image_files_retry`
AcceptedFiles(retry_files, files) == IF retry_files # <<>> THEN retry_files ELSE files

\* one iteration of `while needs_regeneration and retry_count < max_retries`
G_Regen ==
    /\ pc = "g_loop"
    /\ needs_regeneration /\ retry_count < MaxRegen
    /\ retry_count' = retry_count + 1
    /\ enhanced_prompt' = EnhancePrompt(prompt_text)
    /\ NewAttempt
    /\ \/ \E r \in Responses :
            LET acc == ProcessParts([story_text |-> <<>>, image_files |-> <<>>],
                                    r, RetryStem)
                imgs == Len(acc.image_files)
            IN
            \E segs \in {Len(collect_segments(acc.story_text))} :
            /\ story_text_retry' = acc.story_text
            /\ image_files_retry' = acc.image_files
            /\ IF acc.story_text # <<>> THEN
                   /\ segments_count' = segs
                   /\ images_count' = imgs
                   /\ IF RetryAccepted(segs, imgs) THEN
                          /\ story_text' = acc.story_text
                          /\ image_files' = AcceptedFiles(acc.image_files, image_files)
                          /\ complete_story' = collect_complete_story(acc.story_text)
                          /\ needs_regeneration' = FALSE
                      ELSE UNCHANGED <<story_text, image_files, complete_story,
                                       needs_regeneration>>
               ELSE UNCHANGED <<segments_count, images_count, story_text, image_files,
                                complete_story, needs_regeneration>>
       \/ /\ image_files_retry' = <<>>
          /\ story_text_retry' = <<>>
          /\ UNCHANGED <<segments_count, images_count, story_text, image_files,
                         complete_story, needs_regeneration>>
    /\ pc' = "g_loop"
    /\ UNCHANGED <<params, callee, response, prompt_text, temp_dir, use_streaming, image_found,
                   json_errors, contains_image_description, text_units, last_unit, post, result,
                   ret, sleeps, slept, stages, restarts,
                   caller_prompt_text, uploaded>>

\* after the loop: text-to-speech of complete_story.  story_text_retry,
\* image_files_retry, segments_count and images_count are not read after the
\* loop, and are dropped here
G_TTS ==
    /\ pc = "g_loop"
    /\ ~(needs_regeneration /\ retry_count < MaxRegen)
    /\ Stage("tts")
    /\ image_files_retry' = <<>>
    /\ story_text_retry' = <<>>
    /\ segments_count' = 0
    /\ images_count' = 0
    /\ \/ pc' = "g_video" /\ UNCHANGED ret
       \/ ReturnNone
    /\ UNCHANGED <<params, callee, frame, retry_count, needs_regeneration, complete_story,
                   enhanced_prompt, post, result, attempts, fallbacks, sleeps, slept, restarts,
                   caller_prompt_text, uploaded>>

\* create_video(image_files, audio_path, temp_dir)
G_Video ==
    /\ pc = "g_video"
    /\ Stage("video")
    /\ \/ /\ output_path' \in {"video", "None"}
          /\ pc' = "g_metadata"
          /\ UNCHANGED ret
       \/ /\ ReturnRecord
          /\ UNCHANGED output_path
    /\ UNCHANGED <<params, callee, story_text_retry, image_files_retry, frame, regen, thumbnail_path, metadata, result,
                   attempts, fallbacks, sleeps, slept, restarts,
                   caller_prompt_text, uploaded>>

\* what can happen in generate_seo_metadata: genai.Client raises, the request
\* raises, the response has no candidate content, its text is not JSON, the
\* JSON lacks one of title, description, tags, the JSON has them all
MetadataOutcomes ==
    {"client_error", "request_error", "no_candidates", "bad_json", "missing_keys", "ok"}

\* generate_seo_metadata(story_text, image_files, prompt_text): the parsed
\* response, default_seo_metadata(...), or None when the function runs off its
\* end (`if response.candidates and response.candidates[0].content:` has no else)
generate_seo_metadata(outcome) ==
    CASE outcome = "ok" -> "metadata"
      [] outcome = "no_candidates" -> "None"
      [] OTHER -> "default"

\* metadata = generate_seo_metadata(story_text, image_files, prompt_text)
G_Metadata ==
    /\ pc = "g_metadata"
    /\ Stage("metadata")
    /\ \E outcome \in MetadataOutcomes : metadata' = generate_seo_metadata(outcome)
    /\ pc' = "g_thumbnail"
    /\ UNCHANGED <<params, callee, story_text_retry, image_files_retry, frame, regen, output_path, thumbnail_path, result, ret,
                   attempts, fallbacks, sleeps, slept, restarts,
                   caller_prompt_text, uploaded>>

\* generate_thumbnail(image_files, story_text, metadata)
G_Thumbnail ==
    /\ pc = "g_thumbnail"
    /\ Stage("thumbnail")
    /\ thumbnail_path' \in (IF metadata = "None" THEN {"None"}
                            ELSE {"thumbnail", "None"})
    /\ pc' = "g_upload"
    /\ UNCHANGED <<params, callee, story_text_retry, image_files_retry, frame, regen, output_path, metadata, result, ret,
                   attempts, fallbacks, sleeps, slept, restarts,
                   caller_prompt_text, uploaded>>

\* the base class of an exception class, in Python's hierarchy
ExceptionBase(c) ==
    CASE c = "HttpError" -> "Exception"
      [] c = "ImportError" -> "Exception"
      [] c = "TypeError" -> "Exception"
      [] c = "Exception" -> "BaseException"
      [] c = "SystemExit" -> "BaseException"
      [] OTHER -> "BaseException"

RECURSIVE IsSubclass(_, _)
IsSubclass(c, h) ==
    \/ c = h
    \/ c # "BaseException" /\ IsSubclass(ExceptionBase(c), h)

\* a bare `except:`, which takes every exception
CatchesBare(handlers, exc) == handlers # <<>>

\* an `except H` clause takes the exception when its class is H or below
Catches(handlers, exc) ==
    \E i \in 1..Len(handlers) : IsSubclass(exc, handlers[i])

\* the except clauses around the body of upload_to_google_drive
upload_handlers == <<"ImportError", "Exception">>

\* the except clause around the body of generate
generate_handlers == <<"Exception">>

\* what the body of upload_to_google_drive ends with: sys.exit(0), that is
\* SystemExit, after a successful upload, another exception after a failure
\* (metadata['title'] raises TypeError when metadata is None)
UploadRaises == {"SystemExit", "ImportError", "HttpError", "TypeError"}

\* uploads that begin with the title
UploadStepsTitleFirst(thumb) ==
    <<"title", "video", "description", "tags">>
        \o (IF thumb = "thumbnail" THEN <<"thumbnail">> ELSE <<>>)

\* the uploads of upload_to_google_drive in the order of its statements; the
\* thumbnail under `if thumbnail_path and os.path.exists(thumbnail_path):`
UploadSteps(thumb) ==
    <<"video", "title", "description", "tags">>
        \o (IF thumb = "thumbnail" THEN <<"thumbnail">> ELSE <<>>)

\* upload_text_file_to_drive(content, name, folder, drive_service): the file
\* is created, or the call raises
upload_text_file_to_drive == {"uploaded", "raises"}

\* the uploads made with files().create(...).execute(), and the text files
TextFiles == {"title", "description", "tags"}

StepOutcomes(step) ==
    IF step \in TextFiles THEN upload_text_file_to_drive ELSE {"uploaded", "raises"}

\* how far upload_to_google_drive gets and what ends it: the credentials, the
\* service or the folders fail before any upload; an upload raises; the
\* subscript of a metadata that is None raises after the video; all uploads
\* are made and sys.exit(0) is reached
UploadRuns(meta, thumb) ==
    LET steps == UploadSteps(thumb)
        Before(n) == SubSeq(steps, 1, n - 1)
        Subscripted(n) == \E k \in 1..(n - 1) : steps[k] \in TextFiles
    IN  {[done |-> <<>>, exc |-> e] : e \in {"ImportError", "HttpError"}}
        \cup {[done |-> Before(n), exc |-> "HttpError"] :
                n \in {k \in 1..Len(steps) :
                        /\ "raises" \in StepOutcomes(steps[k])
                        /\ meta = "None" => ~Subscripted(k) /\ steps[k] \notin TextFiles}}
        \cup {[done |-> Before(n), exc |-> "TypeError"] :
                n \in {k \in 1..Len(steps) :
                        /\ meta = "None" /\ steps[k] \in TextFiles /\ ~Subscripted(k)}}
        \cup (IF meta # "None" THEN {[done |-> steps, exc |-> "SystemExit"]} ELSE {})

\* a test that lets every output path through
VideoExistsAlways(path) == TRUE

\* `if output_path and os.path.exists(output_path):`
VideoExists(path) == path = "video"

\* upload_to_google_drive(...) when the video exists.  An exception that a
\* clause of upload_to_google_drive takes ends in that handler (or, when the
\* handler raises in its turn, in the clause of generate), and generate
\* returns the record; an exception no clause takes leaves the process
G_Upload ==
    /\ pc = "g_upload"
    /\ IF VideoExists(output_path) THEN
           \E run \in UploadRuns(metadata, thumbnail_path) :
               /\ run.exc \in UploadRaises
               /\ stages' = Append(stages, "upload")
               /\ uploaded' = run.done
               /\ last_ev' = IF run.exc = "SystemExit" THEN "uploaded" ELSE "upload"
               /\ IF Catches(upload_handlers, run.exc) \/ Catches(generate_handlers, run.exc)
                  THEN ReturnRecord
                  ELSE pc' = "exited" /\ UNCHANGED ret
       ELSE
           /\ ReturnRecord
           /\ UNCHANGED <<stages, last_ev, uploaded>>
    /\ UNCHANGED <<params, callee, story_text_retry, image_files_retry, frame, regen, post, result, attempts, fallbacks, sleeps, slept, restarts,
                   caller_prompt_text>>

(***************************************************************************)
(* retry_story_generation and generation_wrapper (story_generator.py)      *)
(***************************************************************************)
\* a loop test that lets one more attempt through
WithinRetriesInclusive(count, limit) == count <= limit

\* `retry_count < max_retries`
WithinRetries(count, limit) == count < limit

\* `while retry_count < max_retries`: the next call of generation_wrapper, or
\* `return None` after the loop
R_Loop ==
    /\ pc = "r_loop"
    /\ IF WithinRetries(retry_count, max_retries) THEN
           /\ retry_count' = retry_count + 1
           /\ NewAttempt
           /\ FreshFrame
           /\ pc' = "w_client"
           /\ UNCHANGED ret
       ELSE
           /\ ReturnNone
           /\ UNCHANGED <<frame, retry_count, attempts, fallbacks, last_ev>>
    /\ UNCHANGED <<params, callee, story_text_retry, image_files_retry, segments_count, images_count, needs_regeneration,
                   complete_story, enhanced_prompt, post, result, sleeps, slept,
                   stages, restarts,
                   caller_prompt_text, uploaded>>

\* a wrapper that returns its record after an exception
WrapperFailsWithRecord == result' = "record" /\ pc' = "r_check"

\* an exception in generation_wrapper: it returns None
WrapperFails == result' = "None" /\ pc' = "r_check"

\* genai.Client(...)
W_Client ==
    /\ pc = "w_client"
    /\ \/ pc' = "w_prompt" /\ UNCHANGED result
       \/ WrapperFails
    /\ UNCHANGED <<params, callee, story_text_retry, image_files_retry, frame, regen, post, ret, hist>>

\* the prompt and the temporary directory
W_Prompt ==
    /\ pc = "w_prompt"
    /\ prompt_text' \in (IF use_prompt_generator
                         THEN {GENERATED_PROMPT, DEFAULT_PROMPT}
                         ELSE {DEFAULT_INPUT})
    /\ temp_dir' = attempts
    /\ story_text' = <<>>
    /\ image_files' = <<>>
    /\ pc' = "w_open"
    /\ UNCHANGED <<params, callee, story_text_retry, image_files_retry, response, use_streaming, image_found,
                   json_errors, contains_image_description, text_units, last_unit, regen, post,
                   result, ret, attempts, fallbacks, sleeps, slept, last_ev, stages,
                   restarts,
                   caller_prompt_text, uploaded>>

\* client.models.generate_content_stream(...)
W_Open ==
    /\ pc = "w_open"
    /\ \/ /\ pc' = "w_stream"
          /\ image_found' = FALSE
          /\ json_errors' = 0
          /\ contains_image_description' = FALSE
          /\ UNCHANGED result
       \/ /\ WrapperFails
          /\ UNCHANGED <<image_found, json_errors, contains_image_description>>
    /\ UNCHANGED <<params, callee, story_text_retry, image_files_retry, response, prompt_text, temp_dir, story_text, image_files,
                   use_streaming, text_units, last_unit, regen, post, ret, hist>>

\* the record generation_wrapper returns
WrapperReturns == result' = "record" /\ pc' = "r_check"

\* one iteration of `for chunk in stream`
W_Chunk ==
    /\ pc = "w_stream"
    /\ \E u \in StreamUnits :
        /\ Deliverable(u)
        /\ LET L == ProcessChunk(Locals, u) IN
            /\ StoreLocals(L)
            /\ IF L.broke THEN WrapperReturns
               ELSE pc' = "w_stream" /\ UNCHANGED result
            /\ last_unit' = IF L.broke THEN "none" ELSE u.kind
        /\ text_units' = IF CarriesText(u) THEN text_units + 1 ELSE text_units
    /\ UNCHANGED <<params, callee, story_text_retry, image_files_retry, response, prompt_text, temp_dir, use_streaming, regen, post, ret, hist>>

\* the stream is exhausted
W_StreamEnd ==
    /\ pc = "w_stream"
    /\ WrapperReturns
    /\ last_unit' = "none"
    /\ UNCHANGED <<params, callee, story_text_retry, image_files_retry, response, locals, regen, post, ret, hist>>

\* the stream raises while it is iterated
W_StreamRaise ==
    /\ pc = "w_stream"
    /\ WrapperFails
    /\ last_unit' = "none"
    /\ UNCHANGED <<params, callee, story_text_retry, image_files_retry, response, locals, regen, post, ret, hist>>

\* the test of the result, and the sleep before the next attempt
R_Check ==
    /\ pc = "r_check"
    /\ IF result = "record" /\ story_text # <<>> /\ Len(image_files) >= min_images THEN
           /\ ret' = [NoResult EXCEPT !.kind = "record", !.story_text = story_text,
                                      !.image_files = image_files]
           /\ pc' = "returned"
           /\ UNCHANGED <<sleeps, slept, last_ev>>
       ELSE
           /\ IF WithinRetries(retry_count, max_retries) THEN sleep(retry_delay)
              ELSE UNCHANGED <<sleeps, slept, last_ev>>
           /\ pc' = "r_loop"
           /\ UNCHANGED ret
    /\ UNCHANGED <<params, callee, story_text_retry, image_files_retry, frame, regen, post, result, attempts, fallbacks, stages,
                   restarts,
                   caller_prompt_text, uploaded>>

Next ==
    \/ G_Client \/ G_Prompt \/ G_Open \/ G_Fallback \/ G_Chunk \/ G_StreamEnd
    \/ G_StreamRaise \/ G_Post \/ G_Eval \/ G_Regen \/ G_TTS \/ G_Video
    \/ G_Metadata \/ G_Thumbnail \/ G_Upload
    \/ R_Loop \/ W_Client \/ W_Prompt \/ W_Open \/ W_Chunk \/ W_StreamEnd
    \/ W_StreamRaise \/ R_Check

Spec == Init /\ [][Next]_vars

(***************************************************************************)
(* A single call: one pass of the body of `for chunk in stream` on a given *)
(* chunk, or collect_complete_story on a given text, called again on its   *)
(* own result                                                              *)
(***************************************************************************)
Chunks ==
    {Chunk(s, c, p, i, pt, t) : s \in BOOLEAN, c \in BOOLEAN, p \in BOOLEAN,
                                i \in BOOLEAN, pt \in {<<>>, T2, TDESC},
                                t \in {<<>>, T2, TDESC}}

ImageList(n) == [i \in 1..n |-> ImgPath(1, "image", i - 1)]

CallInit ==
    /\ use_prompt_generator = FALSE
    /\ prompt_text = <<>> /\ temp_dir = 1
    /\ use_streaming = TRUE /\ json_errors = 0
    /\ text_units = 0 /\ last_unit = "none" /\ response = <<>>
    /\ retry_count = 0 /\ segments_count = 0 /\ images_count = 0
    /\ needs_regeneration = FALSE /\ complete_story = <<>> /\ enhanced_prompt = <<>>
    /\ output_path = "None" /\ thumbnail_path = "None" /\ metadata = "None"
    /\ result = "unset" /\ ret = NoResult
    /\ attempts = 0 /\ fallbacks = 0 /\ sleeps = 0 /\ slept = 0
    /\ last_ev = "none" /\ stages = <<>> /\ restarts = 0 /\ caller_prompt_text = <<>>
    /\ uploaded = <<>>
    /\ story_segments = <<>> /\ tier = "none" /\ calls = 0
    /\ \/ /\ entry = "stream_loop_body" /\ pc = "u_chunk"
          /\ chunk \in Chunks
          /\ story_text \in {<<>>, T2}
          /\ image_files \in {ImageList(0), ImageList(1)}
          /\ image_found = (image_files # <<>>)
          /\ image_files_retry = <<>>
          /\ story_text_retry = <<>>
          /\ contains_image_description \in BOOLEAN
       \/ /\ entry = "collect_complete_story" /\ pc = "e_call"
          /\ chunk = NoChunk
          /\ \/ story_text \in EvalTexts /\ image_files = <<>>
             \/ /\ story_text \in {TFOX, T6, T2}
                /\ image_files \in {ImageList(n) : n \in 1..MaxEvalImages}
          /\ image_found = (image_files # <<>>)
          /\ image_files_retry = <<>>
          /\ story_text_retry = <<>>
          /\ contains_image_description = FALSE

\* the body of the loop, once, on the chunk given
U_Process ==
    /\ pc = "u_chunk"
    /\ StoreLocals(ProcessChunk(Locals, UnitOf(chunk)))
    /\ pc' = "u_done"
    /\ UNCHANGED <<params, callee, story_text_retry, image_files_retry, response, prompt_text, temp_dir, use_streaming,
                   text_units, last_unit, regen, post, result, ret, hist>>

\* collect_complete_story(story_text) and collect_complete_story(story_text,
\* return_segments=True), and with images the verdict on the attempt
E_Collect ==
    /\ pc = "e_call"
    /\ tier' = SelectedTier(Split(story_text, <<NL>>))
    /\ story_segments' = collect_segments(story_text)
    /\ calls' = calls + 1
    /\ IF story_text # <<>> /\ image_files # <<>>
       THEN Evaluate
       ELSE /\ complete_story' = collect_complete_story(story_text)
            /\ UNCHANGED <<retry_count, segments_count, images_count, needs_regeneration>>
    /\ pc' = "e_done"
    /\ UNCHANGED <<params, chunk, story_text_retry, image_files_retry, frame, enhanced_prompt, post, result, ret, hist>>

\* the result is given to collect_complete_story again
E_Again ==
    /\ pc = "e_done"
    /\ calls < MaxCalls
    /\ story_text' = complete_story
    /\ pc' = "e_call"
    /\ UNCHANGED <<params, callee, story_text_retry, image_files_retry, response, prompt_text, temp_dir, image_files,
                   use_streaming, image_found, json_errors, contains_image_description,
                   text_units, last_unit, regen, post, result, ret, hist>>

CallNext == U_Process \/ E_Collect \/ E_Again

CallSpec == CallInit /\ [][CallNext]_vars

(***************************************************************************)
(* Properties                                                              *)
(***************************************************************************)
InStages(name) == \E i \in 1..Len(stages) : stages[i] = name

\* the stream of the current attempt has been consumed
StreamConsumed ==
    \/ pc = "g_post" /\ use_streaming
    \/ pc = "r_check" /\ result = "record"

\* C1: when the stream of an attempt has been consumed with fewer than 5 decode
\* errors no non-streaming fallback request was issued in that attempt, and with
\* 5 decode errors one was issued
C1_FallbackAtThreshold ==
    StreamConsumed =>
        /\ json_errors < max_json_errors => fallbacks = 0
        /\ json_errors >= max_json_errors => fallbacks >= 1

\* the content of the current attempt is being evaluated, narrated or assembled,
\* or was returned as the result
PassedOn ==
    \/ pc \in {"g_eval", "g_loop", "g_video", "g_metadata", "g_thumbnail", "g_upload",
               "exited"}
    \/ pc = "returned" /\ ret.kind = "record"

\* C2: the content of an attempt whose text contained the image-description
\* marker is never passed on to evaluation, narration or video assembly, nor
\* returned: the request is restarted instead
C2_DegradedNeverPassedOn ==
    PassedOn => ~contains_image_description

\* the explicit caps of the source: the first attempt and max_retries
\* regenerations in generate, max_retries calls in retry_story_generation
AttemptCap == IF entry = "generate" THEN 1 + MaxRegen ELSE max_retries

\* C3: the attempts made by one call never exceed the explicit cap
C3_AttemptsCapped ==
    attempts <= AttemptCap

\* the retry budget of the called function
Budget == IF entry = "generate" THEN MaxRegen ELSE max_retries

GenerateExhausted ==
    /\ entry = "generate"
    /\ pc \in {"g_loop", "g_video", "g_metadata", "g_thumbnail", "g_upload", "exited",
               "returned"}
    /\ needs_regeneration
    /\ retry_count >= MaxRegen

C5_ExhaustedReturnsPartial ==
    /\ GenerateExhausted =>
        /\ ~InStages("video")
        /\ pc # "exited"
        /\ pc = "returned" => ret.kind = "record" /\ ret.output_path = "None"
    /\ (entry = "retry_story_generation" /\ pc = "returned") => ret.kind = "record"

\* C6 (as stated): whatever is accepted as the successful result has at least 6
\* segments
C6_AcceptedHasSixSegments ==
    /\ (entry = "generate" /\ pc = "g_loop" /\ ~needs_regeneration) =>
            Len(collect_segments(story_text)) >= min_segments
    /\ (entry = "retry_story_generation" /\ pc = "returned" /\ ret.kind = "record") =>
            Len(collect_segments(ret.story_text)) >= min_segments

\* C6 (amended): in generate an attempt of 8 segments and 8 images is accepted
\* and no attempt of fewer than 6 segments is, whatever its images;
\* retry_story_generation accepts an attempt for its text and 4 images, whatever
\* its segments
C6_Acceptance ==
    /\ (entry = "generate" /\ pc = "g_loop" /\ ~needs_regeneration) =>
            Len(collect_segments(story_text)) >= min_segments
    /\ (entry = "generate" /\ pc = "g_loop" /\ segments_count = 8 /\ images_count = 8) =>
            ~needs_regeneration
    /\ (entry = "retry_story_generation" /\ pc = "returned" /\ ret.kind = "record") =>
            ret.story_text # <<>> /\ Len(ret.image_files) >= min_images

C6_Witness ==
    /\ entry = "generate" /\ pc = "g_loop" /\ retry_count = 1
    /\ segments_count = 8 /\ images_count = 8 /\ ~needs_regeneration

\* the returned content meets the acceptance test of the called function
Succeeded ==
    IF entry = "generate"
    THEN RetryAccepted(Len(collect_segments(ret.story_text)), Len(ret.image_files))
    ELSE ret.story_text # <<>> /\ Len(ret.image_files) >= min_images

\* C7: a call that made an attempt returns a record only when the content met the
\* thresholds or the retry budget is used up
C7_NeverStopsEarly ==
    (pc = "returned" /\ ret.kind = "record" /\ attempts >= 1) =>
        Succeeded \/ retry_count >= Budget

\* C8 (as stated): every attempt other than the first was preceded by a wait
C8_WaitBeforeEveryRetry ==
    attempts >= 2 => sleeps >= attempts - 1

\* C8 (amended): retry_story_generation sleeps retry_delay = 7 seconds once
\* after every failed attempt but the last, so that every attempt other than the
\* first starts right after exactly one sleep; generate never waits
C8_Waits ==
    /\ slept = retry_delay * sleeps
    /\ entry = "generate" => sleeps = 0
    /\ entry = "retry_story_generation" =>
        /\ sleeps = IF pc = "r_loop" /\ last_ev = "sleep" THEN attempts
                    ELSE IF attempts = 0 THEN 0 ELSE attempts - 1
        /\ (pc = "r_loop" /\ attempts >= 1 /\ retry_count < max_retries) =>
                last_ev = "sleep"

C8_Witness ==
    /\ entry = "retry_story_generation" /\ pc = "w_stream"
    /\ attempts = 3 /\ sleeps = 2 /\ slept = 2 * retry_delay

\* C9: intensifying the prompt sent on a retry once more leaves it unchanged
C9_IntensifyIdempotent ==
    enhanced_prompt # <<>> => EnhancePrompt(enhanced_prompt) = enhanced_prompt

\* C10: text-to-speech has started only if an attempt met the thresholds
C10_NarrationOnlyAfterSuccess ==
    InStages("tts") => ~needs_regeneration

\* a stream is being consumed
InStream == pc \in {"g_stream", "w_stream"}

\* C11: while fewer than 5 chunks have failed to decode, a chunk that fails to
\* decode only increments json_errors: story_text and image_files are unchanged
\* and the loop goes on; a text chunk or an image chunk delivered by the open
\* stream is appended whatever the count of earlier failures
C11_BadUnitAbsorbed ==
    [][InStream =>
        /\ (json_errors' = json_errors + 1 /\ json_errors' < max_json_errors) =>
                story_text' = story_text /\ image_files' = image_files /\ pc' = pc
        /\ (pc' = pc /\ last_unit' \in {"str", "text"}) =>
                Len(story_text') > Len(story_text)
        /\ (pc' = pc /\ last_unit' = "image") =>
                Len(image_files') = Len(image_files) + 1]_vars

C11_Witness ==
    InStream /\ json_errors = max_json_errors - 1 /\ last_unit = "text"

\* C12 (as stated): a unit processed successfully resets the count of decode
\* failures
C12_SuccessResetsCount ==
    (InStream /\ last_unit \in {"str", "text", "image"}) => json_errors = 0

\* C12 (amended): json_errors counts the decode failures of the whole stream:
\* nothing resets it while the stream is consumed, units processed successfully
\* leave it as it is, and the loop is left at the fifth failure whether or not
\* the failures were consecutive
C12_CumulativeCount ==
    [][InStream =>
        /\ json_errors < max_json_errors
        /\ json_errors' >= json_errors
        /\ json_errors' <= json_errors + 1
        /\ (pc' = pc /\ last_unit' # "json_error") => json_errors' = json_errors
        /\ (json_errors' = max_json_errors) <=> (json_errors' # json_errors /\ pc' # pc
                                                /\ pc' \in {"g_post", "r_check"}
                                                /\ json_errors = max_json_errors - 1)]_vars

C12_Witness ==
    InStream /\ json_errors = max_json_errors - 1 /\ last_unit = "image"

\* C13: the non-streaming request made after the stream failed merges every part
\* of its response into the attempt by the rules of the stream: images after the
\* images collected, texts after the text collected
C13_FallbackMergesAllParts ==
    [][(pc = "g_stream" /\ fallbacks' = fallbacks + 1 /\ response' # <<>>) =>
          LET acc == ProcessParts([story_text |-> story_text,
                                   image_files |-> image_files], response', "image")
          IN story_text' = acc.story_text /\ image_files' = acc.image_files]_vars

\* C14: an attempt built from the response to the fallback request made when the
\* stream could not be created goes on like a streamed attempt: to the restart
\* when its text describes images, to the evaluation otherwise
C14_FallbackAttemptEvaluated ==
    [][(pc = "g_post" /\ ~use_streaming) => pc' \in {"g_eval", "g_client"}]_vars

\* C15 (as stated): a failure of the fallback request does not end the run
C15_FallbackFailureNotFatal ==
    [][(pc = "g_fallback" /\ fallbacks' = fallbacks + 1 /\ response' = <<>>) =>
            pc' # "returned"]_vars

\* the fallback request made after the stream failed has just failed
AbsorbedFailure == use_streaming /\ last_ev = "fallback" /\ response = <<>>

\* C15 (amended): a failure of the fallback request made when the stream could
\* not be created ends the call of generate at once: it returns None and no
\* other attempt is made.  A failure of the fallback request made after the
\* stream failed is absorbed: the attempt keeps what it has and goes on to the
\* checks that follow the stream
C15_FallbackFailure ==
    [][/\ (pc = "g_fallback" /\ fallbacks' = fallbacks + 1 /\ response' = <<>>) =>
            pc' = "returned" /\ ret' = NoneResult /\ attempts' = attempts
       /\ (pc = "g_stream" /\ fallbacks' = fallbacks + 1 /\ response' = <<>>) =>
            /\ pc' = "g_post"
            /\ story_text' = story_text /\ image_files' = image_files
            /\ attempts' = attempts
       /\ (pc = "g_post" /\ AbsorbedFailure) => pc' = "g_eval"]_vars

C15_Witness ==
    /\ entry = "generate" /\ pc = "returned" /\ ret.kind = "None"
    /\ ~use_streaming /\ last_ev = "fallback" /\ attempts = 1

C17_ClientFailureFatal ==
    [][(pc \in {"g_client", "w_client"} /\ pc' \notin {"g_prompt", "w_prompt"}) =>
            pc' = "returned"]_vars

\* C17 (amended): in generate a failure to construct the client ends the call
\* at once with None, no request being made.  In retry_story_generation it is
\* a failed attempt like any other: generation_wrapper returns None without a
\* request, and the loop sleeps and calls it again while the budget lasts
C17_ClientFailure ==
    [][/\ (pc = "g_client" /\ pc' # "g_prompt") =>
            pc' = "returned" /\ ret' = NoneResult /\ attempts' = attempts
       /\ (pc = "w_client" /\ pc' # "w_prompt") =>
            /\ pc' = "r_check" /\ result' = "None"
            /\ temp_dir' = 0 /\ story_text' = <<>> /\ image_files' = <<>>
       /\ (pc = "r_check" /\ temp_dir = 0) =>
            /\ result = "None" /\ pc' = "r_loop"
            /\ sleeps' = IF retry_count < max_retries THEN sleeps + 1 ELSE sleeps
       /\ (pc = "r_loop" /\ temp_dir = 0 /\ last_ev = "sleep") =>
            pc' = "w_client" /\ attempts' = attempts + 1]_vars

C17_Witness ==
    /\ entry = "retry_story_generation" /\ pc = "r_loop" /\ temp_dir = 0
    /\ result = "None" /\ attempts = 1 /\ last_ev = "sleep" /\ slept = retry_delay

\* C18: every call of generate that returns, returns the record of five
\* fields, never a bare None
C18_AlwaysRecord ==
    (entry = "generate" /\ pc = "returned") => ret.kind = "record"

\* C19: a successful upload ends the process.  The step that completes the
\* upload leaves the program exited (no handler of upload_to_google_drive or
\* of generate takes the exit), and no step is ever taken after the exit, so
\* no attempt, retry, wait or upload follows it
C19_UploadExits ==
    [][/\ pc # "exited"
       /\ (last_ev' = "uploaded" /\ last_ev # "uploaded") =>
              /\ pc = "g_upload" /\ pc' = "exited"
              /\ attempts' = attempts /\ sleeps' = sleeps /\ ret' = ret]_vars

C19_Witness ==
    /\ pc = "exited" /\ last_ev = "uploaded" /\ InStages("upload")
    /\ ret.kind = "pending"

\* `new` is `old` with something, possibly nothing, added at its end
Extends(old, new) ==
    Len(new) >= Len(old) /\ SubSeq(new, 1, Len(old)) = old

\* C20: while a stream is consumed the image list and the text only grow at
\* their end: every step keeps the list and the text it found as a prefix; a
\* unit with text makes the text longer and leaves the list, a unit with an
\* image adds one path, numbered by the place it takes, and leaves the text;
\* so the list holds the images in the order they came
C20_AppendOnly ==
    [][InStream =>
        /\ Extends(image_files, image_files')
        /\ Extends(story_text, story_text')
        /\ (pc' = pc /\ last_unit' \in {"str", "text"}) =>
                Len(story_text') > Len(story_text) /\ image_files' = image_files
        /\ (pc' = pc /\ last_unit' = "image") =>
                /\ image_files' =
                       Append(image_files, ImgPath(temp_dir, "image", Len(image_files)))
                /\ story_text' = story_text
        /\ \A i \in 1..Len(image_files') :
                image_files'[i] = ImgPath(temp_dir, "image", i - 1)]_vars

C20_Witness ==
    /\ InStream /\ last_unit = "image"
    /\ Len(image_files) >= 3 /\ text_units = MaxTextUnits

\* the text a step added at the end of story_text
Added == SubSeq(story_text', Len(story_text) + 1, Len(story_text'))

\* C21: one pass of the loop body classifies the chunk in the order of its
\* tests: a bare string is text; a chunk without candidates or without content
\* parts gives its .text, if any, as text; else a first part with inline data is
\* an image and gives no text; else a first part with text is text; else
\* nothing.  A chunk gives one image or one text fragment at most, and the flag
\* of image descriptions is raised exactly by a fragment that holds the marker
C21_Classification ==
    [][pc = "u_chunk" =>
        LET plain == chunk.is_str \/ ~chunk.has_candidates \/ ~chunk.has_parts
            fragment == IF plain THEN chunk.text
                        ELSE IF chunk.inline_data THEN <<>>
                        ELSE chunk.part_text
        IN /\ Extends(story_text, story_text')
           /\ Added = fragment
           /\ image_files' =
                 IF ~plain /\ chunk.inline_data
                 THEN Append(image_files, ImgPath(temp_dir, "image", Len(image_files)))
                 ELSE image_files
           /\ image_files' # image_files => story_text' = story_text
           /\ contains_image_description' =
                 (contains_image_description
                    \/ Contains(fragment, IMAGE_DESCRIPTION_MARKER))
           /\ json_errors' = json_errors]_vars

C21_Witness ==
    /\ pc = "u_done" /\ ~chunk.is_str /\ chunk.has_candidates /\ chunk.has_parts
    /\ chunk.inline_data /\ chunk.part_text = TDESC /\ chunk.text = T2
    /\ Len(image_files) = 2 /\ story_text = T2 /\ ~contains_image_description

\* the paths of a list of files
Paths(files) == {files[i] : i \in 1..Len(files)}

\* a step that makes a regeneration attempt
RegenStep == pc = "g_loop" /\ attempts' = attempts + 1

\* C22 (as stated): no attempt writes to a path another attempt wrote to.  A
\* regeneration attempt writes to no file of the stream attempt and to no file
\* of the regeneration attempt before it
C22_ExclusivePaths ==
    [][RegenStep =>
          Paths(image_files_retry') \cap (Paths(image_files) \cup Paths(image_files_retry))
              = {}]_vars

\* C22: the directory is owned by the call, the files by their kind.  The stream
\* attempt of a call writes image_0, image_1, ... into the directory the call
\* made; in retry_story_generation that directory is the attempt's own.  The
\* regeneration attempts of generate all write image_retry_0, image_retry_1, ...
\* into the directory of the call: never a file of the stream attempt, but the
\* files of the regeneration attempt before, from the first on.  When an
\* attempt is accepted the files in use are the ones it wrote
C22_Ownership ==
    [][/\ InStream =>
            /\ \A i \in 1..Len(image_files') :
                   image_files'[i] = ImgPath(temp_dir, "image", i - 1)
            /\ temp_dir' = temp_dir /\ temp_dir >= 1
            /\ entry = "retry_story_generation" => temp_dir = attempts
            /\ entry = "generate" => temp_dir <= attempts
       /\ RegenStep =>
            /\ temp_dir' = temp_dir /\ temp_dir < attempts'
            /\ \A i \in 1..Len(image_files_retry') :
                   /\ image_files_retry'[i].dir = temp_dir
                   /\ image_files_retry'[i].idx = i - 1
                   /\ image_files_retry'[i] \notin Paths(image_files)
                   /\ i <= Len(image_files_retry) =>
                          image_files_retry'[i] = image_files_retry[i]
            /\ (needs_regeneration /\ ~needs_regeneration') =>
                   image_files' = image_files_retry' /\ image_files' # <<>>
            /\ needs_regeneration' => image_files' = image_files]_vars

C22_Witness ==
    /\ pc = "g_loop" /\ retry_count = 2 /\ ~needs_regeneration
    /\ image_files = image_files_retry /\ Len(image_files) >= 5
    /\ image_files[1] = ImgPath(temp_dir, RetryStem, 0) /\ attempts = temp_dir + 2

\* the text holds a marker **Scene N:**
HasSceneMarker(text) ==
    \E i \in 1..Len(text) :
        LET n == SceneBoldLen(SubSeq(text, i, Len(text))) IN
        n > 0 /\ text[i + n - 3] = ":"

\* no bold marker and no scene label is in the text
MarkerFree(text) ==
    /\ ~Contains(text, <<"*", "*">>)
    /\ \A i \in 1..Len(text) : SceneLabelLen(SubSeq(text, i, Len(text))) = 0

\* C23: for a text with a marker **Scene N:** collect_complete_story takes
\* the branch of the explicit markers, and neither the segments it returns with
\* return_segments=True nor the cleaned text hold a bold marker or a scene marker
C23_NoMarkerLeaks ==
    (pc = "e_done" /\ calls = 1 /\ HasSceneMarker(story_text)) =>
        /\ tier = "markers"
        /\ \A i \in 1..Len(story_segments) : MarkerFree(story_segments[i])
        /\ MarkerFree(complete_story)

\* C24: for the text `**Story:** A fox met a bear. **Scene 2:** They built a
\* raft. **Image:** raft.png` and 2 images the evaluation yields the 2 segments
\* `A fox met a bear.` and `They built a raft.`, and the attempt is accepted
C24_TwoSegmentsAccepted ==
    (pc = "e_done" /\ calls = 1 /\ story_text = TFOX /\ Len(image_files) = 2) =>
        /\ story_segments = << <<"A", " ", "fox", " ", "met", " ", "a", " ", "bear", ".">>,
                               <<"They", " ", "built", " ", "a", " ", "raft", ".">> >>
        /\ segments_count = 2
        /\ ~needs_regeneration

\* C24 as the code has it: the text is one line, so the branch of the explicit
\* markers makes one segment of all that follows `**Story:**`; the scene marker
\* and the image part are removed from the cleaned text only; one segment is
\* fewer than min_segments, so the attempt is to be regenerated
C24_OneSegmentRejected ==
    (pc = "e_done" /\ calls = 1 /\ story_text = TFOX /\ Len(image_files) = 2) =>
        /\ tier = "markers"
        /\ story_segments = << SubSeq(TFOX, Len(STORY_MARKER) + 2, Len(TFOX)) >>
        /\ segments_count = 1
        /\ images_count = 2
        /\ complete_story = <<"A", " ", "fox", " ", "met", " ", "a", " ", "bear", ".", " ",
                              "They", " ", "built", " ", "a", " ", "raft", ".">>
        /\ needs_regeneration

C24_Witness ==
    /\ pc = "e_done" /\ calls = 1 /\ story_text = TFOX /\ Len(image_files) = 2
    /\ Len(story_segments) = 1 /\ needs_regeneration

\* C25: collect_complete_story applied to its own result returns that result
C25_Idempotent ==
    (pc = "e_done" /\ calls >= 2) => complete_story = story_text

\* the text holds something else than whitespace
NonBlank(text) == \E i \in 1..Len(text) : text[i] \notin {" ", NL}

\* C26: for a text that is not only whitespace the story collect_complete_story
\* returns is not empty, the raw-text fallback included
C26_NeverEmpty ==
    (pc = "e_done" /\ calls = 1 /\ NonBlank(story_text)) => complete_story # <<>>

\* the lines of the text the last call of collect_complete_story was given
CallLines == Split(story_text, <<NL>>)

\* C27: the segments are made by one branch: the explicit markers when a line
\* holds one, else the headers when a line holds one, else the paragraphs when
\* a line holds the word story, else the last resort
C27_FirstTierWins ==
    (pc = "e_done") =>
        LET m == has_story_markers(CallLines)
            h == has_section_markers(CallLines)
            k == has_story_keyword(CallLines)
        IN /\ tier \in {"markers", "headers", "paragraphs", "last_resort"}
           /\ (tier = "markers") = m
           /\ (tier = "headers") = (~m /\ h)
           /\ (tier = "paragraphs") = (~m /\ ~h /\ k)
           /\ (tier = "last_resort") = (~m /\ ~h /\ ~k)
           /\ m => story_segments = Flush(MarkerParse(ParseInit, CallLines)).story_segments
           /\ (~m /\ h) =>
                  story_segments = Flush(SectionParse(ParseInit, CallLines)).story_segments
           /\ (~m /\ ~h /\ k) =>
                  story_segments = Flush(ParagraphParse(ParseInit, CallLines)).story_segments
           /\ (~m /\ ~h /\ ~k) =>
                  story_segments = TierSegments("last_resort", CallLines)

\* a text with an explicit marker, a header and the word story
C27_Witness ==
    /\ pc = "e_done"
    /\ has_story_markers(CallLines)
    /\ has_section_markers(CallLines)
    /\ has_story_keyword(CallLines)
    /\ tier = "markers"
    /\ story_segments # <<>>
    /\ story_segments # Flush(SectionParse(ParseInit, CallLines)).story_segments

\* the test of the first evaluation: segments >= 6 and images >= segments
PrimaryAccepted(segs, imgs) == segs >= 6 /\ imgs >= segs

\* the test of a regeneration attempt: segments >= 6 and images >= 0.8 * segments
RegenerationAccepted(segs, imgs) == segs >= 6 /\ 5 * imgs >= 4 * segs

\* C28: in generate the first attempt is accepted exactly when it has at least 6
\* segments and as many images as segments, a regeneration attempt exactly when
\* it has at least 6 segments and 5 * images >= 4 * segments; an accepted
\* regeneration attempt has at least 5 images
C28_Thresholds ==
    [][/\ (pc = "g_eval" /\ pc' = "g_loop") =>
              (~needs_regeneration') =
                  PrimaryAccepted(Len(collect_segments(story_text)), Len(image_files))
       /\ RegenStep =>
              /\ \E segs \in {Len(collect_segments(story_text_retry'))} :
                     (~needs_regeneration') =
                         RegenerationAccepted(segs, Len(image_files_retry'))
              /\ ~needs_regeneration' =>
                     /\ Len(image_files_retry') >= 5
                     /\ story_text' = story_text_retry'
                     /\ image_files' = image_files_retry']_vars

\* a regeneration attempt was accepted with fewer images than segments, after
\* others were rejected
C28_Witness ==
    /\ pc = "g_loop" /\ retry_count >= 2 /\ ~needs_regeneration
    /\ story_text = story_text_retry
    /\ Len(collect_segments(story_text)) = 6 /\ Len(image_files_retry) = 5
    /\ ~PrimaryAccepted(6, 5)

\* C29: generate_seo_metadata returns a record with title, description and tags
\* on every path, the default one when the response could not be used
C29_AlwaysARecord ==
    [][pc = "g_metadata" => metadata' \in {"metadata", "default"}]_vars

\* the step that handles the decode error which makes json_errors reach
\* max_json_errors
AbortStep == InStream /\ json_errors' = json_errors + 1 /\ json_errors' = max_json_errors

\* the raw texts a chunk that failed to decode may expose
RawTexts == {u.text : u \in {v \in StreamUnits : v.kind = "json_error"}}

\* C30: at the fifth decode error the stream is left, so that no later unit is
\* processed, and the raw text the chunk exposes is appended to story_text
C30_AbortAppendsRawText ==
    [][AbortStep =>
        /\ ~InStream'
        /\ image_files' = image_files
        /\ Extends(story_text, story_text')
        /\ Added \in RawTexts]_vars

\* C30 as the code has it: at the fifth decode error the stream is left, and no
\* stream is ever open with 5 errors counted; the raw text the chunk exposes is
\* appended without its fenced blocks: of ```fox```bear only bear is kept
C30_AbortAppendsUnfencedRawText ==
    [][/\ InStream' => json_errors' < max_json_errors
       /\ AbortStep =>
            /\ ~InStream'
            /\ image_files' = image_files
            /\ Extends(story_text, story_text')
            /\ Added \in {<<>>, <<"bear", NL>>}
            /\ ~Contains(Added, <<FENCE>>)]_vars

\* a stream was left at the fifth decode error after it delivered a text and an
\* image, and the raw text of the last chunk was added without its fenced block
C30_Witness ==
    /\ ~InStream /\ json_errors = max_json_errors
    /\ story_text = T2 \o <<"bear", NL>>
    /\ Len(image_files) = 1

\* image_files is the list a regeneration attempt of generate made
RegenList == entry = "generate" /\ retry_count >= 1 /\ ~needs_regeneration

\* the k-th path of the list, counting from 0, is <stem>_{k}.jpg in directory dir
WellNamed(files, dir, stem) ==
    \A i \in 1..Len(files) : files[i] = ImgPath(dir, stem, i - 1)

RestartStep == entry = "generate" /\ pc = "g_post" /\ pc' = "g_client"

\* the call made by a restart computes its prompt
RestartPromptStep == pc = "g_prompt" /\ caller_prompt_text # <<>> /\ pc' = "g_open"

\* the prompt carries a phrase of the intensification
Intensified(prompt) ==
    HasPhrase(prompt, GENERATE_DETAILED) \/ HasPhrase(prompt, ONE_IMAGE_SENTENCE)

\* C32: generate restarts only when the attempt carries the image-description
\* flag, without a wait and without intensifying the prompt, and the prompt
\* the restarted attempt sends is the prompt of the degraded attempt
C32_SamePrompt ==
    [][/\ RestartStep => contains_image_description /\ sleeps' = sleeps
       /\ RestartPromptStep =>
            /\ ~Intensified(prompt_text')
            /\ sleeps' = sleeps
            /\ prompt_text' = caller_prompt_text]_vars

\* C32 as the code has it: the restart is the call generate(use_prompt_generator,
\* prompt_input) with the arguments of the caller, made whenever the flag is
\* set, with or without images; the new call makes its prompt again: it is the
\* prompt of the degraded attempt when the prompt generator is not used, and
\* one of the prompts the generator step can give when it is used
C32_RestartRecomputesPrompt ==
    [][/\ RestartStep =>
            /\ contains_image_description
            /\ sleeps' = sleeps
            /\ use_prompt_generator' = use_prompt_generator
            /\ restarts' = restarts + 1
            /\ attempts' = attempts
       /\ RestartPromptStep =>
            /\ ~Intensified(prompt_text')
            /\ sleeps' = sleeps
            /\ ~use_prompt_generator => prompt_text' = caller_prompt_text
            /\ use_prompt_generator =>
                   prompt_text' \in {GENERATED_PROMPT, DEFAULT_PROMPT}]_vars

\* the call made by a restart is about to send the prompt it made, with the
\* prompt generator in use
C32_Witness ==
    /\ entry = "generate" /\ pc = "g_open" /\ restarts = 1 /\ last_ev = "restart"
    /\ use_prompt_generator /\ prompt_text = DEFAULT_PROMPT
    /\ attempts = 1

\* a stage after the generation is running or has run in generate
AfterLoop == entry = "generate" /\ pc \in {"g_video", "g_metadata", "g_thumbnail", "g_upload"}

\* the step that leaves the regeneration loop for text-to-speech
HandOver == entry = "generate" /\ pc = "g_loop" /\ stages' # stages

\* C33: what generate hands to text-to-speech, video assembly, metadata
\* generation and upload comes from one attempt: complete_story is the cleaned
\* story_text, and story_text and image_files are either those of the accepted
\* regeneration attempt or those of the streamed attempt, never the text of one
\* with the images of the other; the stages leave them as they are
C33_OneAttempt ==
    [][/\ HandOver =>
            /\ complete_story = collect_complete_story(story_text)
            /\ IF RegenList
               THEN /\ story_text = story_text_retry
                    /\ image_files = image_files_retry
                    /\ WellNamed(image_files, temp_dir, RetryStem)
               ELSE WellNamed(image_files, temp_dir, "image")
       /\ (RegenStep /\ ~RegenList') =>
            story_text' = story_text /\ image_files' = image_files
       /\ (HandOver \/ AfterLoop) =>
            /\ story_text' = story_text
            /\ image_files' = image_files
            /\ complete_story' = complete_story]_vars

\* the story and the files of the second regeneration attempt, accepted after
\* a rejected one, reached the upload
C33_Witness ==
    /\ entry = "generate" /\ pc = "g_upload" /\ retry_count = 2 /\ ~needs_regeneration
    /\ Len(image_files) = 5 /\ image_files[1].stem = RetryStem
    /\ Len(collect_segments(story_text)) = 6
    /\ output_path = "video"

\* C34: every regeneration attempt of generate takes one unit of the retry
\* budget; an attempt that is rejected, returns no text or raises leaves
\* story_text, image_files and complete_story as they were; an accepted attempt
\* replaces all three by its own text, its own files and its own cleaned text
\* (complete_story is looked at in the state the accepted attempt leaves, by the
\* step that follows it)
C34_RegenerationFrame ==
    [][/\ RegenStep =>
            /\ retry_count' = retry_count + 1
            /\ needs_regeneration' =>
                    /\ story_text' = story_text
                    /\ image_files' = image_files
                    /\ complete_story' = complete_story
            /\ ~needs_regeneration' =>
                    /\ story_text_retry' # <<>> /\ image_files_retry' # <<>>
                    /\ story_text' = story_text_retry'
                    /\ image_files' = image_files_retry'
       /\ (HandOver /\ RegenList) =>
            complete_story = collect_complete_story(story_text_retry)]_vars

\* the second regeneration attempt raised or returned nothing: the budget is
\* used up and the story and the files of the streamed attempt are in place
C34_Witness ==
    /\ entry = "generate" /\ pc = "g_loop" /\ retry_count = 2 /\ needs_regeneration
    /\ story_text_retry = <<>> /\ image_files_retry = <<>>
    /\ segments_count >= 1 /\ images_count >= 1
    /\ story_text # <<>> /\ WellNamed(image_files, temp_dir, "image") /\ image_files # <<>>

\* C35: a chunk whose processing raises an exception other than JSONDecodeError
\* is skipped: json_errors, story_text and contains_image_description are as
\* before, image_files holds what it held (and the image the chunk stored before
\* it raised), the loop goes on and no other request is made; the loop is left
\* at the threshold only by a step that counts a decode error
C35_OtherErrorSkipped ==
    [][InStream =>
        /\ last_unit' = "error" =>
                /\ json_errors' = json_errors
                /\ story_text' = story_text
                /\ contains_image_description' = contains_image_description
                /\ Extends(image_files, image_files')
                /\ Len(image_files') <= Len(image_files) + 1
                /\ pc' = pc
                /\ fallbacks' = fallbacks /\ attempts' = attempts
        /\ json_errors' = json_errors => json_errors' < max_json_errors
        /\ (~InStream' /\ json_errors' >= max_json_errors) => json_errors' = json_errors + 1]_vars

\* a chunk raised another exception after four decode errors, with text and
\* images read before: the stream is still being read
C35_Witness ==
    /\ InStream /\ last_unit = "error" /\ json_errors = max_json_errors - 1
    /\ story_text # <<>> /\ image_files # <<>>

\* the stages after the generation, in the order of the code
StageOrder == <<"tts", "video", "metadata", "thumbnail", "upload">>

IsPrefix(s, t) == Len(s) <= Len(t) /\ \A i \in 1..Len(s) : s[i] = t[i]

\* a stage is started by this step
StageStep == stages' # stages

\* C36: the stages run after the generation are a prefix of tts, video,
\* metadata, thumbnail, upload, each started once; a stage is started only with
\* a story text and an image list that are not empty; the video is assembled
\* only by the step after a text-to-speech that did not fail, and a
\* text-to-speech that failed ends the call with None; the upload is started
\* only when the video assembly gave the path of an existing file
C36_StagesInOrder ==
    [][/\ IsPrefix(stages', StageOrder)
       /\ StageStep =>
            /\ Len(stages') = Len(stages) + 1
            /\ story_text # <<>> /\ image_files # <<>>
            /\ entry = "generate"
       /\ (StageStep /\ stages'[Len(stages')] = "video") =>
            pc = "g_video" /\ last_ev = "tts"
       /\ (StageStep /\ stages'[Len(stages')] = "tts" /\ pc' # "g_video") =>
            pc' = "returned" /\ ret' = NoneResult
       /\ (StageStep /\ stages'[Len(stages')] = "upload") =>
            pc = "g_upload" /\ output_path = "video"
       /\ pc \in {"returned", "exited"} => stages' = stages]_vars

\* all five stages ran, the upload failed and the record was returned
C36_Witness ==
    /\ entry = "generate" /\ pc = "returned" /\ stages = StageOrder
    /\ last_ev = "upload" /\ ret.kind = "record" /\ ret.output_path = "video"
    /\ restarts = 1

AttemptSucceeded ==
    result = "record" /\ story_text # <<>> /\ Len(image_files) >= min_images

\* C38: retry_story_generation returns a record only for the attempt it has just
\* checked, with a story text and at least 4 images; an attempt that meets the
\* test is returned at once, with no sleep and no attempt after it; an attempt
\* that ended in an error (generation_wrapper returned None) is a failed one;
\* no more than 5 attempts are made; a sleep is made only after a failed
\* attempt that another attempt follows, never after the fifth
C38_FirstSuccessReturned ==
    [][entry = "retry_story_generation" =>
        /\ attempts' <= max_retries
        /\ (pc' = "returned" /\ ret'.kind = "record") =>
                /\ pc = "r_check" /\ AttemptSucceeded
                /\ ret'.story_text = story_text /\ ret'.image_files = image_files
                /\ ret'.story_text # <<>> /\ Len(ret'.image_files) >= min_images
        /\ (pc = "r_check" /\ AttemptSucceeded) =>
                /\ pc' = "returned" /\ ret'.kind = "record"
                /\ attempts' = attempts /\ sleeps' = sleeps
        /\ (pc = "r_check" /\ result = "None") => pc' = "r_loop" /\ ret' = ret
        /\ sleeps' # sleeps =>
                /\ pc = "r_check" /\ ~AttemptSucceeded
                /\ attempts < max_retries
                /\ sleeps' = sleeps + 1 /\ slept' = slept + retry_delay
                /\ pc' = "r_loop"
        /\ (pc = "r_loop" /\ last_ev = "sleep") => attempts' = attempts + 1
        /\ pc = "returned" => attempts' = attempts /\ sleeps' = sleeps]_vars

\* the fifth attempt was the first to bring a text and four images, and was
\* returned after four sleeps
C38_Witness ==
    /\ entry = "retry_story_generation" /\ pc = "returned" /\ ret.kind = "record"
    /\ attempts = max_retries /\ sleeps = max_retries - 1
    /\ Len(ret.image_files) = min_images

\* the text a line gives to the narration: what follows `**Story:**`, what
\* follows the colon of a scene marker, or the line without its stars
NarrationPiece(line) ==
    IF Contains(line, STORY_MARKER) THEN Strip(Split(line, STORY_MARKER)[2], WS)
    ELSE IF Contains(line, SCENE_MARKER) THEN
        LET parts == SplitOnce(line, <<":">>) IN
        IF Len(parts) > 1 THEN Strip(parts[2], WS) ELSE <<>>
    ELSE Strip(line, {"*", " "})

\* the texts of the lines from the first marker on, image lines left out
RECURSIVE NarrationFrom(_, _)
NarrationFrom(lines, started) ==
    IF lines = <<>> THEN <<>>
    ELSE LET line == Strip(Head(lines), WS)
             marker == Contains(line, STORY_MARKER) \/ Contains(line, SCENE_MARKER)
             image == Contains(line, IMAGE_PROMPT_MARKER) \/ Contains(line, IMAGE_MARKER)
             piece == IF (started \/ marker) /\ ~image THEN NarrationPiece(line) ELSE <<>>
         IN (IF piece # <<>> THEN <<piece>> ELSE <<>>)
                \o NarrationFrom(Tail(lines), started \/ marker)

\* the text without its spaces
NotSpace(c) == c # SP
Symbols(text) == SelectSeq(text, NotSpace)

\* C39: in the branch of the explicit markers the segments returned hold, in the
\* order of the lines, the text of every line from the first marker on that is
\* not an image line, each text once: nothing accumulated is discarded by a
\* later `**Story:**` line, and a line with `**Image Prompt:**` or `**Image:**`
\* gives nothing
C39_NoNarrationLost ==
    (pc = "e_done" /\ calls = 1 /\ tier = "markers") =>
        Symbols(Join(story_segments, <<SP>>))
            = Symbols(Join(NarrationFrom(CallLines, FALSE), <<SP>>))
=============================================================================
